---------------------------- MODULE Spec2Model ----------------------------
(***************************************************************************)
(* ShootyUppy (src/main.py): the frame loop of main(), the entities it     *)
(* moves, the collision passes, the wave generator, the upgrade catalog    *)
(* and the playing / choosing / game_over state machine.                   *)
(*                                                                         *)
(* Units.  Lengths are pixels (pygame.Rect holds integers).  Times are     *)
(* milliseconds, the unit of clock.tick() and get_ticks(); the code's      *)
(* seconds are ms / 1000.  Health and damage are floats in the code; here  *)
(* they are counted in 1/HP of a health point, which represents every      *)
(* value the configuration below produces without rounding.  The player's  *)
(* shoot cooldown is counted in microseconds so that the factor 0.85 of    *)
(* the attack-speed upgrade is exact.                                      *)
(***************************************************************************)
EXTENDS Integers, Sequences, FiniteSets, TLC

(***************************************************************************)
(* Bounds of the exploration.                                              *)
(***************************************************************************)
\* the last wave the exploration enters
MaxWave == 3
\* seconds of clock the model tells apart (see Tick); no cooldown is longer
TimeCapSec == 1
\* display-mode toggles (F11) the exploration follows
MaxToggles == 1
\* chain-lightning unit runs: enemies handed to one call, grid of centres
MaxChainEnemies == 5
\* nearest-order unit runs: enemies handed to one call
MaxNearestEnemies == 4
\* wave-generator unit runs: the last wave generated
MaxGenWave == 6
\* upgrade unit runs: the number of upgrades applied to one player
MaxUpgrades == 7
\* player-bullet unit runs: the number of bullets in flight
MaxBullets == 2
\* enemy-fire unit runs: the number of frames
MaxFireFrames == 5
\* frame unit runs: the number of enemies
MaxFrameEnemies == 2
\* patrol unit runs: the number of frames
MaxPatrolFrames == 8

HP == 4 * 5
Ms == 10 * 100

Min(a, b) == IF a <= b THEN a ELSE b
Max(a, b) == IF a >= b THEN a ELSE b

\* DEFAULT_CONFIG (lines 16-40); times in ms, fractions in hundredths
DEFAULT_CONFIG ==
  [ window |-> [ width |-> 960, height |-> 720, fps |-> 60 ],
    player |-> [ speed |-> 360, shoot_cooldown_ms |-> 250, bullet_speed |-> 900,
                 bullet_damage |-> 1, bullet_count |-> 1, max_health |-> 5,
                 bottom_margin |-> 32 ],
    enemy  |-> [ rows |-> 3, cols |-> 6, horizontal_speed |-> 120,
                 shoot_cooldown_ms |-> 1500, bullet_speed |-> 360,
                 bullet_damage |-> 1, spacing |-> 96, start_y |-> 90,
                 padding |-> 60, base_health |-> 2 ],
    wave   |-> [ speed_scaling_pct |-> 12, health_scaling_pct |-> 60,
                 count_scaling_pct |-> 12 ] ]

(***************************************************************************)
(* load_config(): DEFAULT_CONFIG overridden by a config.toml.  The keys    *)
(* are those of DEFAULT_CONFIG; the values are those of a small arena in   *)
(* which a frame lasts a few seconds, so that a whole play-through         *)
(* (three waves, an upgrade, a defeat, a restart) takes a few frames.      *)
(* Fractions are in hundredths (_pct).                                     *)
(***************************************************************************)
config ==
  [ window |-> [ width |-> 480, height |-> 240, fps |-> 1 ],
    player |-> [ speed |-> 140, shoot_cooldown_ms |-> 1000, bullet_speed |-> 60,
                 bullet_damage |-> 1, bullet_count |-> 1, max_health |-> 2,
                 bottom_margin |-> 0 ],
    enemy  |-> [ rows |-> 1, cols |-> 1, horizontal_speed |-> 140,
                 shoot_cooldown_ms |-> 1000, bullet_speed |-> 60,
                 bullet_damage |-> 1, spacing |-> 20, start_y |-> 40,
                 padding |-> 25, base_health |-> 1 ],
    wave   |-> [ speed_scaling_pct |-> 0, health_scaling_pct |-> 50,
                 count_scaling_pct |-> 0 ] ]

\* the desktop size pygame.display.set_mode((0, 0), FULLSCREEN) reports
desktop == [ width |-> 480, height |-> 212 ]

\* the machine: the time (ms) one pass of the main loop takes when it is not
\* delayed by the clock
machine == [ frame_ms |-> 3000 ]

\* clock.tick(fps): the time since the previous tick, never less than
\* 1000 / fps
DtSet == { Max(machine.frame_ms, 1000 \div config.window.fps) }

(***************************************************************************)
(* Constants of the source.                                                *)
(***************************************************************************)
BOUNCY_BALL_SIZE == 36
BOUNCY_BALL_LIFETIME == 6000
BOUNCY_BALL_COLLISIONS == 10
BulletW == 6
BulletH == 18
PlayerW == 60
PlayerH == 28
EnemyW == 50
EnemyH == 30
EnemyMargin == 20
CardW == 360
CardH == 180
CardSpacing == 40
CardTop == 200
MaxBounces == 4
BulletCap == 6
Spread == 16
None == 0

(***************************************************************************)
(* Arithmetic of the conversions the code performs.                        *)
(***************************************************************************)
Abs(a) == IF a < 0 THEN -a ELSE a

\* int(n / d) for d > 0: C conversion of a float to an int truncates to zero
Trunc(n, d) == IF n >= 0 THEN n \div d ELSE -((-n) \div d)

\* math.ceil(n / d) for d > 0
Ceil(n, d) == IF n >= 0 THEN (n + d - 1) \div d ELSE -((-n) \div d)

\* rect.x += v * dt: the Rect setter stores int(x + v * dt), v in px/s, dt in ms
Advance(x, v, dt) == Trunc(x * Ms + v * dt, Ms)

\* pygame.Rect.colliderect for rectangles of positive size: touching edges
\* do not overlap
Collide(ax, ay, aw, ah, bx, by, bw, bh) ==
  /\ ax < bx + bw
  /\ bx < ax + aw
  /\ ay < by + bh
  /\ by < ay + ah

\* pygame.Rect.clamp_ip on one axis: a rectangle larger than the screen is
\* centred on it
Clamp(x, w, sw) ==
  IF w >= sw THEN (sw \div 2) - (w \div 2)
  ELSE IF x < 0 THEN 0
  ELSE IF x + w > sw THEN sw - w
  ELSE x

\* screen.get_rect() after set_display_mode(fullscreen, config)
ScreenW(fs) == IF fs THEN desktop.width ELSE config.window.width
ScreenH(fs) == IF fs THEN desktop.height ELSE config.window.height

VARIABLES
  pc,                 \* "tick": top of the while loop; "events": in the event loop
  now,                \* pygame.time.get_ticks(), ms
  dt,                 \* clock.tick(fps), ms
  fullscreen,
  state,              \* "playing" | "choosing" | "game_over"
  wave,
  pending_wave,       \* None or a wave number
  powerup_choices,    \* sequence of catalog indices
  powerup_card_rects, \* sequence of the cards' left edges
  player,
  enemies,            \* sprite group: sequence in insertion order
  player_bullets,
  enemy_bullets,
  bouncy_balls,
  toggles,            \* history: the number of F11 presses so far
  last,               \* history: the step just taken and what it observed
  chain               \* unit run of chain_lightning_strike: its call and result

simvars == <<state, wave, pending_wave, powerup_choices, powerup_card_rects,
             player, enemies, player_bullets, enemy_bullets, bouncy_balls>>
vars == <<pc, now, dt, fullscreen, simvars, toggles, last, chain>>


(***************************************************************************)
(* Entities.                                                               *)
(***************************************************************************)
\* Player.__init__: midbottom = (screen centerx, screen bottom - bottom_margin)
NewPlayer(fs) ==
  [ x |-> (ScreenW(fs) \div 2) - (PlayerW \div 2),
    y |-> ScreenH(fs) - config.player.bottom_margin - PlayerH,
    speed |-> config.player.speed,
    shoot_cooldown |-> config.player.shoot_cooldown_ms * Ms,  \* microseconds
    last_shot_time |-> 0,
    bullet_speed |-> config.player.bullet_speed,
    bullet_damage |-> config.player.bullet_damage * HP,
    bullet_count |-> config.player.bullet_count,
    max_health |-> config.player.max_health * HP,
    health |-> config.player.max_health * HP,
    has_split_shot |-> FALSE,
    has_thorns |-> FALSE,
    has_chain_lightning |-> FALSE,
    has_bouncy_ball |-> FALSE ]

\* create_wave (lines 324-325): speed_multiplier and health_multiplier of
\* wave w under the configuration cfg, in hundredths
SpeedMultiplierOf(cfg, w) == 100 + (w - 1) * cfg.wave.speed_scaling_pct
HealthMultiplierOf(cfg, w) == 100 + (w - 1) * cfg.wave.health_scaling_pct

\* create_wave: speed_multiplier and health_multiplier, in hundredths
SpeedMultiplier(w) == SpeedMultiplierOf(config, w)
HealthMultiplier(w) == HealthMultiplierOf(config, w)

\* an enemy health rounded up to a whole number of health points
EnemyHealthRoundedUp(cfg, w) ==
  Max(HP, HP * Ceil(cfg.enemy.base_health * HealthMultiplierOf(cfg, w), 100))

\* lines 240-241: max(1.0, base_health * health_multiplier)
EnemyHealthOf(cfg, w) ==
  Max(HP, (cfg.enemy.base_health * HP * HealthMultiplierOf(cfg, w)) \div 100)

\* Enemy.__init__ under the configuration cfg
NewEnemyOf(cfg, w, idx, cx, cy) ==
  [ id |-> <<w, idx>>,
    x |-> cx - (EnemyW \div 2),
    y |-> cy - (EnemyH \div 2),
    direction |-> 1,
    speed |-> (cfg.enemy.horizontal_speed * SpeedMultiplierOf(cfg, w)) \div 100,
    health |-> EnemyHealthOf(cfg, w),
    shoot_cooldown |-> [ num |-> cfg.enemy.shoot_cooldown_ms * 500,
                         den |-> 400 + SpeedMultiplierOf(cfg, w) ],
    last_shot_time |-> 0 ]

\* a wave size rounded down
WaveTotalFloor(cfg, w) ==
  LET base_total == cfg.enemy.rows * cfg.enemy.cols
  IN  base_total + (base_total * cfg.wave.count_scaling_pct * (w - 1)) \div 100

\* create_wave (lines 321-323): total number of enemies of wave w
WaveTotalOf(cfg, w) ==
  LET base_total == cfg.enemy.rows * cfg.enemy.cols
  IN  base_total + Ceil(base_total * cfg.wave.count_scaling_pct * (w - 1), 100)

\* create_wave (line 330): number of layout columns on a screen sw wide
WaveColsOf(cfg, w, sw) ==
  Max(1, Min(cfg.enemy.cols + (w \div 2),
             (sw - cfg.enemy.padding * 2) \div cfg.enemy.spacing))

\* create_wave(wave, config, screen_rect): the enemy group, row-major
create_wave_of(cfg, w, sw) ==
  [ k \in 1..WaveTotalOf(cfg, w) |->
      LET idx == k - 1
          row == idx \div WaveColsOf(cfg, w, sw)
          col == idx % WaveColsOf(cfg, w, sw)
          x0  == cfg.enemy.padding + col * cfg.enemy.spacing
          cy  == cfg.enemy.start_y + row * cfg.enemy.spacing
          cx  == Min(Max(cfg.enemy.padding, x0), sw - cfg.enemy.padding)
      IN  NewEnemyOf(cfg, w, idx, cx, cy) ]

\* Enemy.__init__; id = <<wave, idx>> stands for the identity of the sprite
\* object (bullet.owner refers to it).  shoot_cooldown is the fraction
\* num / den ms = shoot_cooldown / (0.8 + speed_multiplier * 0.2).
NewEnemy(w, idx, cx, cy) == NewEnemyOf(config, w, idx, cx, cy)

\* create_wave: total number of enemies of a wave
WaveTotal(w) == WaveTotalOf(config, w)

\* create_wave: number of layout columns
WaveCols(w, fs) == WaveColsOf(config, w, ScreenW(fs))

\* create_wave: the enemy group of wave w, row-major (the shape is cosmetic)
create_wave(w, fs) == create_wave_of(config, w, ScreenW(fs))

\* Bullet.__init__ with center = (cx, cy)
NewBullet(cx, cy, vx, vy, damage, owner) ==
  [ x |-> cx - (BulletW \div 2), y |-> cy - (BulletH \div 2),
    vx |-> vx, vy |-> vy, damage |-> damage, owner |-> owner ]

\* BouncyBall.__init__ with center = (cx, cy)
NewBall(cx, cy, vx, vy, damage) ==
  [ x |-> cx - (BOUNCY_BALL_SIZE \div 2), y |-> cy - (BOUNCY_BALL_SIZE \div 2),
    vx |-> vx, vy |-> vy, damage |-> damage,
    lifetime |-> BOUNCY_BALL_LIFETIME,
    remaining_collisions |-> BOUNCY_BALL_COLLISIONS ]

\* Player.shoot(now): <<player, new projectiles>>
Shoot(p, t) ==
  IF (t - p.last_shot_time) * Ms < p.shoot_cooldown
  THEN <<p, <<>>>>
  ELSE
    LET cx == p.x + (PlayerW \div 2)
        straight == [ k \in 1..p.bullet_count |->
                        NewBullet(cx + (2 * (k - 1) - (p.bullet_count - 1)) * (Spread \div 2),
                                  p.y, 0, -p.bullet_speed, p.bullet_damage, None) ]
        diag == (p.bullet_speed * 75) \div 100
        split == IF p.has_split_shot
                 THEN << NewBullet(cx, p.y, -diag, -p.bullet_speed, p.bullet_damage, None),
                         NewBullet(cx, p.y, diag, -p.bullet_speed, p.bullet_damage, None) >>
                 ELSE <<>>
    IN  << [p EXCEPT !.last_shot_time = t], straight \o split >>

(***************************************************************************)
(* The upgrade catalog, build_powerups(), by position.                     *)
(***************************************************************************)
Catalog == 1..9
UpDamage == 1
UpAttackSpeed == 2
UpBulletCount == 3
UpSpeed == 4
UpHeal == 5
UpSplitShot == 6
UpThorns == 7
UpChain == 8
UpBall == 9

\* a bullet-count upgrade without the cap
upgrade_bullet_count_uncapped(p) == [p EXCEPT !.bullet_count = p.bullet_count + 1]

\* Player.upgrade_bullet_count(1): min(cap, bullet_count + 1)
upgrade_bullet_count(p) == [p EXCEPT !.bullet_count = Min(BulletCap, p.bullet_count + 1)]

\* a heal without the cap at the maximum health
heal_percentage_uncapped(p) ==
  [p EXCEPT !.health = p.health + (p.max_health * 40) \div 100]

\* Player.heal_percentage(0.4)
heal_percentage(p) ==
  [p EXCEPT !.health = Min(p.max_health, p.health + (p.max_health * 40) \div 100)]

\* Player.upgrade_attack_speed(0.85): max(0.05, shoot_cooldown * 0.85)
upgrade_attack_speed(p) ==
  [p EXCEPT !.shoot_cooldown = Max(50 * Ms, (p.shoot_cooldown * 85) \div 100)]

\* the apply_fn of catalog entry k
ApplyUpgrade(k, p) ==
  CASE k = UpDamage      -> [p EXCEPT !.bullet_damage = p.bullet_damage + HP]
    [] k = UpAttackSpeed -> upgrade_attack_speed(p)
    [] k = UpBulletCount -> upgrade_bullet_count(p)
    [] k = UpSpeed       -> [p EXCEPT !.speed = p.speed + 40]
    [] k = UpHeal        -> heal_percentage(p)
    [] k = UpSplitShot   -> [p EXCEPT !.has_split_shot = TRUE]
    [] k = UpThorns      -> [p EXCEPT !.has_thorns = TRUE]
    [] k = UpChain       -> [p EXCEPT !.has_chain_lightning = TRUE]
    [] k = UpBall        -> [p EXCEPT !.has_bouncy_ball = TRUE]

\* a ball that is spawned without the ability
BallDueWithoutAbility(p, balls) == balls = <<>>

\* ensure_bouncy_ball_active: does the call spawn a ball
BallDue(p, balls) == p.has_bouncy_ball /\ balls = <<>>

\* random.choice([-0.7, 0.7]) is drawn only when a ball is spawned
BallSigns(p, balls) == IF BallDue(p, balls) THEN {-1, 1} ELSE {1}

\* ensure_bouncy_ball_active(player, bouncy_balls, screen_rect)
ensure_bouncy_ball_active(p, balls, fs, sign) ==
  IF ~BallDue(p, balls) THEN balls
  ELSE
    LET b == NewBall(p.x + (PlayerW \div 2), p.y,
                     sign * ((p.bullet_speed * 70) \div 100),
                     -((p.bullet_speed * 60) \div 100),
                     p.bullet_damage \div 2)
    IN  << [b EXCEPT !.x = Clamp(b.x, BOUNCY_BALL_SIZE, ScreenW(fs)),
                     !.y = Clamp(b.y, BOUNCY_BALL_SIZE, ScreenH(fs))] >>

\* build_powerup_card_rects(screen, card_count): the cards' left edges
build_powerup_card_rects(fs, card_count) ==
  LET total_width == CardW * card_count + CardSpacing * (card_count - 1)
      \* Python's // floors
      start_x == IF ScreenW(fs) - total_width >= 0
                 THEN (ScreenW(fs) - total_width) \div 2
                 ELSE -((total_width - ScreenW(fs) + 1) \div 2)
  IN  [ k \in 1..card_count |-> start_x + (k - 1) * (CardW + CardSpacing) ]

(***************************************************************************)
(* The session.                                                            *)
(***************************************************************************)
Keys == {"r", "1", "2", "3", "4"}

\* what a key is to the event loop: the restart key, a digit that selects a
\* card, or any other key
KeyClass(key) == IF key = "r" THEN "r" ELSE IF key \in {"1", "2", "3"} THEN "digit" ELSE "other"

\* event.pos of the mouse clicks drawn: on each card, between two cards and
\* above the cards
Clicks == { <<10, 220>>, <<40, 220>>, <<240, 220>>, <<470, 220>>, <<240, 100>> }

NoChain == [ called |-> FALSE ]

\* history record of an event
Seen(op, arg) == [ op |-> op, arg |-> arg, from |-> state ]

\* main() up to the while loop: reset_game and the locals
Init ==
  /\ pc = "tick"
  /\ now = 0
  /\ dt = 0
  /\ fullscreen = FALSE
  /\ state = "playing"
  /\ wave = 1
  /\ pending_wave = None
  /\ powerup_choices = <<>>
  /\ powerup_card_rects = <<>>
  /\ player = NewPlayer(FALSE)
  /\ enemies = create_wave(1, FALSE)
  /\ player_bullets = <<>>
  /\ enemy_bullets = <<>>
  /\ bouncy_balls = <<>>
  /\ toggles = 0
  /\ last = [ op |-> "init", arg |-> None, from |-> "playing" ]
  /\ chain = NoChain

\* A time read off the clock, after the origin of the clock has moved by shift
Rebase(t, shift) == Max(0, t - shift)

\* lines 501-502: dt = clock.tick(fps) / 1000.0; now = get_ticks() / 1000.0.
\* The code uses the clock only in now - last_shot_time < shoot_cooldown, and
\* a new sprite has last_shot_time = 0.  Once now would pass TimeCapSec the
\* origin of the clock is moved forward instead: now stays at the cap and
\* every last_shot_time moves back by the same amount, not below 0.  Every
\* difference below the cap keeps its value and every other stays at least
\* the cap, which no cooldown exceeds, so each comparison has the value the
\* code computes.
Tick ==
  /\ pc = "tick"
  /\ \E d \in DtSet :
       LET shift == Max(0, now + d - TimeCapSec * Ms)
       IN  /\ dt' = d
           /\ now' = now + d - shift
           /\ player' = [player EXCEPT
                           !.last_shot_time = Rebase(player.last_shot_time, shift)]
           /\ enemies' = [ k \in 1..Len(enemies) |->
                             [enemies[k] EXCEPT
                                !.last_shot_time = Rebase(enemies[k].last_shot_time, shift)] ]
  /\ pc' = "events"
  /\ last' = Seen("tick", None)
  /\ UNCHANGED <<fullscreen, state, wave, pending_wave, powerup_choices,
                 powerup_card_rects, player_bullets, enemy_bullets, bouncy_balls,
                 toggles, chain>>

\* a restart that leaves the enemy bullets in flight
RestartKeepsBullets ==
  /\ player' = NewPlayer(fullscreen)
  /\ enemies' = create_wave(1, fullscreen)
  /\ player_bullets' = <<>>
  /\ enemy_bullets' = enemy_bullets
  /\ bouncy_balls' = <<>>
  /\ wave' = 1
  /\ state' = "playing"
  /\ pending_wave' = None
  /\ powerup_choices' = <<>>
  /\ powerup_card_rects' = <<>>

\* reset_game(config, screen_rect) and lines 529-531
Restart ==
  /\ player' = NewPlayer(fullscreen)
  /\ enemies' = create_wave(1, fullscreen)
  /\ player_bullets' = <<>>
  /\ enemy_bullets' = <<>>
  /\ bouncy_balls' = <<>>
  /\ wave' = 1
  /\ state' = "playing"
  /\ pending_wave' = None
  /\ powerup_choices' = <<>>
  /\ powerup_card_rects' = <<>>

\* a selection that leaves the offers up
SelectKeepsOffers(idx) ==
  LET p == ApplyUpgrade(powerup_choices[idx], player)
  IN  /\ player' = p
      /\ state' = "playing"
      /\ enemies' = create_wave(IF pending_wave # None THEN pending_wave ELSE wave,
                                fullscreen)
      /\ pending_wave' = None
      /\ powerup_card_rects' = <<>>
      /\ \E sign \in BallSigns(p, bouncy_balls) :
           bouncy_balls' = ensure_bouncy_ball_active(p, bouncy_balls, fullscreen, sign)
      /\ UNCHANGED <<wave, player_bullets, enemy_bullets, powerup_choices>>

\* lines 545-552 and 557-564: apply the chosen upgrade and resume play
Select(idx) ==
  LET p == ApplyUpgrade(powerup_choices[idx], player)
  IN  /\ player' = p
      /\ state' = "playing"
      /\ enemies' = create_wave(IF pending_wave # None THEN pending_wave ELSE wave,
                                fullscreen)
      /\ pending_wave' = None
      /\ powerup_choices' = <<>>
      /\ powerup_card_rects' = <<>>
      /\ \E sign \in BallSigns(p, bouncy_balls) :
           bouncy_balls' = ensure_bouncy_ball_active(p, bouncy_balls, fullscreen, sign)
      /\ UNCHANGED <<wave, player_bullets, enemy_bullets>>

\* every digit picks the first offer
ChoiceIndexFirst(key) == IF key \in {"1", "2", "3"} THEN 1 ELSE None

\* every key picks an offer
ChoiceIndexAnyKey(key) ==
  CASE key = "2" -> 2
    [] key = "3" -> 3
    [] OTHER -> 1

\* lines 541-543: event.unicode in ("1", "2", "3") gives int(unicode) - 1;
\* here the 1-based position in powerup_choices, or None
ChoiceIndex(key) ==
  CASE key = "1" -> 1
    [] key = "2" -> 2
    [] key = "3" -> 3
    [] OTHER -> None

\* lines 514-524: F11 toggles the display mode and clamps the sprites
ToggleFullscreen ==
  LET fs == ~fullscreen
  IN  /\ fullscreen' = fs
      /\ player' = [player EXCEPT !.x = Clamp(player.x, PlayerW, ScreenW(fs)),
                                  !.y = Clamp(player.y, PlayerH, ScreenH(fs))]
      /\ enemies' = [ k \in 1..Len(enemies) |->
                        [enemies[k] EXCEPT !.x = Clamp(enemies[k].x, EnemyW, ScreenW(fs)),
                                           !.y = Clamp(enemies[k].y, EnemyH, ScreenH(fs))] ]
      /\ bouncy_balls' = [ k \in 1..Len(bouncy_balls) |->
                             [bouncy_balls[k] EXCEPT
                                !.x = Clamp(bouncy_balls[k].x, BOUNCY_BALL_SIZE, ScreenW(fs)),
                                !.y = Clamp(bouncy_balls[k].y, BOUNCY_BALL_SIZE, ScreenH(fs))] ]
      /\ powerup_card_rects' = IF state = "choosing"
                               THEN build_powerup_card_rects(fs, Len(powerup_choices))
                               ELSE powerup_card_rects
      /\ UNCHANGED <<state, wave, pending_wave, powerup_choices,
                     player_bullets, enemy_bullets>>

\* one KEYDOWN event of the key F11 (lines 514-524)
KeyF11 ==
  /\ pc = "events"
  /\ toggles < MaxToggles
  /\ toggles' = toggles + 1
  /\ last' = Seen("f11", None)
  /\ ToggleFullscreen
  /\ UNCHANGED <<pc, now, dt, chain>>

\* the restart key without the test of the state
RestartGuardAnyState(st, key) == key = "r"

\* line 525: does the event restart the game
RestartGuard(st, key) == st = "game_over" /\ key = "r"

\* one KEYDOWN event of another key through the body of the event loop
\* (lines 525-532 and 540-552)
KeyEvent(key) ==
  /\ pc = "events"
  /\ last' = Seen("key", KeyClass(key))
  /\ IF RestartGuard(state, key) THEN Restart
     ELSE IF /\ state = "choosing"
             /\ ChoiceIndex(key) # None
             /\ ChoiceIndex(key) <= Len(powerup_choices)
          THEN Select(ChoiceIndex(key))
          ELSE UNCHANGED simvars
  /\ UNCHANGED <<pc, now, dt, fullscreen, toggles, chain>>

KeyDown == \E key \in Keys : KeyEvent(key)

\* lines 555-556: the first card whose rectangle holds the position, or None
CardAt(rects, px, py) ==
  LET on == { k \in 1..Len(rects) :
                /\ rects[k] <= px /\ px < rects[k] + CardW
                /\ CardTop <= py /\ py < CardTop + CardH }
  IN  IF on = {} THEN None ELSE CHOOSE k \in on : \A j \in on : k <= j

\* one MOUSEBUTTONDOWN event of button 1 at (px, py) (lines 533-539 and
\* 553-565)
MouseEvent(px, py) ==
       /\ pc = "events"
       /\ px < ScreenW(fullscreen) /\ py < ScreenH(fullscreen)
       /\ last' = Seen("click", IF state = "choosing" /\ CardAt(powerup_card_rects, px, py) # None
                                THEN "card" ELSE "none")
       /\ CASE state = "playing" ->
                 /\ player' = Shoot(player, now)[1]
                 /\ player_bullets' = player_bullets \o Shoot(player, now)[2]
                 /\ UNCHANGED <<state, wave, pending_wave, powerup_choices,
                                powerup_card_rects, enemies, enemy_bullets, bouncy_balls>>
            [] state = "choosing" ->
                 IF CardAt(powerup_card_rects, px, py) # None
                 THEN Select(CardAt(powerup_card_rects, px, py))
                 ELSE UNCHANGED simvars
            [] OTHER -> UNCHANGED simvars
       /\ UNCHANGED <<pc, now, dt, fullscreen, toggles, chain>>

MouseDown == \E pos \in Clicks : MouseEvent(pos[1], pos[2])

(***************************************************************************)
(* Movement (lines 567-588).                                               *)
(***************************************************************************)
\* Player.move(direction, dt, screen_rect)
Move(p, direction, d, fs) ==
  [p EXCEPT !.x = Clamp(Advance(p.x, direction * p.speed, d), PlayerW, ScreenW(fs)),
            !.y = Clamp(p.y, PlayerH, ScreenH(fs))]

\* Bullet.update(dt)
BulletUpdate(b, d) ==
  [b EXCEPT !.x = Advance(b.x, b.vx, d), !.y = Advance(b.y, b.vy, d)]

\* a ball that turns round at the edges without being put back inside
BallUpdateNoClamp(b, d, fs) ==
  IF b.lifetime - d <= 0 THEN <<>>
  ELSE
    LET x1 == Advance(b.x, b.vx, d)
        y1 == Advance(b.y, b.vy, d)
        hitx == x1 <= 0 \/ x1 + BOUNCY_BALL_SIZE >= ScreenW(fs)
        hity == y1 <= 0 \/ y1 + BOUNCY_BALL_SIZE >= ScreenH(fs)
    IN  << [b EXCEPT !.lifetime = b.lifetime - d,
                     !.vx = IF hitx THEN -b.vx ELSE b.vx,
                     !.vy = IF hity THEN -b.vy ELSE b.vy,
                     !.x = x1, !.y = y1] >>

\* BouncyBall.update(dt, screen_rect): the group after the update of ball b
\* (kill() takes an expired ball out of it)
BallUpdate(b, d, fs) ==
  IF b.lifetime - d <= 0 THEN <<>>
  ELSE
    LET sw == ScreenW(fs)
        sh == ScreenH(fs)
        S  == BOUNCY_BALL_SIZE
        x1 == Advance(b.x, b.vx, d)
        y1 == Advance(b.y, b.vy, d)
        hitx == x1 <= 0 \/ x1 + S >= sw
        x2 == IF hitx THEN Clamp(x1, S, sw) ELSE x1
        y2 == IF hitx THEN Clamp(y1, S, sh) ELSE y1
        hity == y2 <= 0 \/ y2 + S >= sh
    IN  << [b EXCEPT !.lifetime = b.lifetime - d,
                     !.vx = IF hitx THEN -b.vx ELSE b.vx,
                     !.vy = IF hity THEN -b.vy ELSE b.vy,
                     !.x = IF hity THEN Clamp(x2, S, sw) ELSE x2,
                     !.y = IF hity THEN Clamp(y2, S, sh) ELSE y2] >>

\* Enemy.update(dt, screen_rect)
EnemyUpdate(e, d, fs) ==
  LET x1 == Advance(e.x, e.direction * e.speed, d)
  IN  [e EXCEPT !.x = x1,
                !.direction = IF x1 <= EnemyMargin \/ x1 + EnemyW >= ScreenW(fs) - EnemyMargin
                              THEN -e.direction ELSE e.direction]

\* lines 583-585: a player bullet is dropped once its bottom is above the screen
PlayerBulletGone(b) == b.y + BulletH < 0

\* lines 586-588: an enemy bullet is dropped once its top is below the screen
EnemyBulletGone(b, fs) == b.y > ScreenH(fs)


(***************************************************************************)
(* Enemy fire (lines 252-260 and 590-594).                                 *)
(***************************************************************************)
\* an enemy that does not wait for its cooldown
CanShootAlways(e, t) == TRUE

\* Enemy.try_shoot: not (now - last_shot_time < shoot_cooldown)
CanShoot(e, t) == ~((t - e.last_shot_time) * e.shoot_cooldown.den < e.shoot_cooldown.num)

\* the bullet of a firing enemy: from its bottom centre, owned by it
EnemyShot(e) ==
  NewBullet(e.x + (EnemyW \div 2), e.y + EnemyH, 0, config.enemy.bullet_speed,
            config.enemy.bullet_damage * HP, e.id)

\* lines 591-594; gate = the enemies whose random.random() < 0.25 succeeds
FireAll(es, ebs, t, gate) ==
  [ enemies |-> [ k \in 1..Len(es) |->
                    IF k \in gate THEN [es[k] EXCEPT !.last_shot_time = t] ELSE es[k] ],
    enemy_bullets |-> ebs \o [ j \in 1..Cardinality(gate) |->
                                 EnemyShot(es[CHOOSE k \in gate :
                                              Cardinality({i \in gate : i < k}) = j - 1]) ] ]

(***************************************************************************)
(* chain_lightning_strike (lines 363-382).                                 *)
(***************************************************************************)
CentreX(e) == e.x + (EnemyW \div 2)
CentreY(e) == e.y + (EnemyH \div 2)

\* the square of Vector2.distance_to between two centres
Dist2(ax, ay, bx, by) == (ax - bx) * (ax - bx) + (ay - by) * (ay - by)

\* position in es of the enemy with identity id (0 if it is not in es)
IndexOf(es, id) ==
  IF \E k \in 1..Len(es) : es[k].id = id
  THEN CHOOSE k \in 1..Len(es) : es[k].id = id
  ELSE 0

\* a minimum that returns the last of several minimal elements
NearestLast(targets, cx, cy) ==
  CHOOSE j \in 1..Len(targets) :
    /\ \A i \in 1..Len(targets) :
         Dist2(CentreX(targets[j]), CentreY(targets[j]), cx, cy)
           <= Dist2(CentreX(targets[i]), CentreY(targets[i]), cx, cy)
    /\ \A i \in (j + 1)..Len(targets) :
         Dist2(CentreX(targets[i]), CentreY(targets[i]), cx, cy)
           > Dist2(CentreX(targets[j]), CentreY(targets[j]), cx, cy)

\* line 372: min(remaining_targets, key = distance to current_pos); Python's
\* min returns the first of several minimal elements
Nearest(targets, cx, cy) ==
  CHOOSE j \in 1..Len(targets) :
    /\ \A i \in 1..Len(targets) :
         Dist2(CentreX(targets[j]), CentreY(targets[j]), cx, cy)
           <= Dist2(CentreX(targets[i]), CentreY(targets[i]), cx, cy)
    /\ \A i \in 1..(j - 1) :
         Dist2(CentreX(targets[i]), CentreY(targets[i]), cx, cy)
           > Dist2(CentreX(targets[j]), CentreY(targets[j]), cx, cy)

\* lines 377-381: the enemy group after a chain hit on the enemy at position k
ChainRemove(es, k, health) ==
  IF health <= 0
  THEN [ j \in 1..(Len(es) - 1) |-> IF j < k THEN es[j] ELSE es[j + 1] ]
  ELSE [es EXCEPT ![k].health = health]

\* the for loop of lines 369-381: es the enemy group, targets the
\* remaining_targets (their identities), (cx, cy) current_pos, segments the
\* list built so far, hops the iterations left
RECURSIVE ChainLoop(_, _, _, _, _, _, _)
ChainLoop(es, targets, cx, cy, damage, segments, hops) ==
  IF hops = 0 \/ targets = <<>>
  THEN [ enemies |-> es, segments |-> segments ]
  ELSE
    LET objs == [ j \in 1..Len(targets) |-> es[IndexOf(es, targets[j])] ]
        j == Nearest(objs, cx, cy)
        target == objs[j]
        tx == CentreX(target)
        ty == CentreY(target)
        rest == [ i \in 1..(Len(targets) - 1) |->
                    IF i < j THEN targets[i] ELSE targets[i + 1] ]
    IN  ChainLoop(ChainRemove(es, IndexOf(es, target.id), target.health - damage),
                  rest, tx, ty, damage,
                  Append(segments, [ from |-> <<cx, cy>>, to |-> <<tx, ty>>,
                                     target |-> target.id ]),
                  hops - 1)

\* a chain whose targets are all the enemies, the start enemy too
chain_lightning_strike_all(start_enemy, es, damage) ==
  ChainLoop(es, [ j \in 1..Len(es) |-> es[j].id ],
            CentreX(start_enemy), CentreY(start_enemy), damage, <<>>, MaxBounces)

\* chain_lightning_strike(start_enemy, enemies, damage, max_bounces = 4)
chain_lightning_strike(start_enemy, es, damage) ==
  LET others == { k \in 1..Len(es) : es[k].id # start_enemy.id }
      targets == [ j \in 1..Cardinality(others) |->
                     es[CHOOSE k \in others :
                          Cardinality({i \in others : i < k}) = j - 1].id ]
  IN  ChainLoop(es, targets, CentreX(start_enemy), CentreY(start_enemy),
                damage, <<>>, MaxBounces)

(***************************************************************************)
(* Collision passes (lines 596-640).                                       *)
(***************************************************************************)
\* lines 598 and 615: the positions of the enemies whose rectangle overlaps
\* the w x h rectangle at (x, y)
Hits(es, x, y, w, h) ==
  { k \in 1..Len(es) : Collide(es[k].x, es[k].y, EnemyW, EnemyH, x, y, w, h) }

\* lines 605 and 622: is chain propagation triggered (hits holds the
\* overlapping enemies; start_enemy exists whenever it is not empty)
ChainTriggered(p, hits) == p.has_chain_lightning /\ hits # {}

\* the bullet is taken out whether or not it hit
BulletConsumedAlways(hits) == TRUE

\* line 611 under the "if hits" of line 599: is the bullet taken out
BulletConsumed(hits) == hits # {}

\* an enemy that is kept at the health 0
StillAliveAtZero(e) == e.health >= 0

\* lines 603-604 and 618-619: an enemy is removed at health <= 0
StillAlive(e) == e.health > 0

\* a projectile that damages only the first enemy it overlaps
StrikeFirstOnly(es, p, x, y, w, h, damage) ==
  LET hits == Hits(es, x, y, w, h)
      first == CHOOSE k \in hits : \A i \in hits : k <= i
      hurt == [ k \in 1..Len(es) |->
                  IF k = first THEN [es[k] EXCEPT !.health = es[k].health - damage]
                  ELSE es[k] ]
      Alive(e) == e.health > 0
      left == SelectSeq(hurt, Alive)
      struck == chain_lightning_strike(es[first], left, damage \div 2)
  IN  IF hits = {}
      THEN [ enemies |-> es, hits |-> hits, chained |-> FALSE, segments |-> <<>> ]
      ELSE IF ChainTriggered(p, hits)
      THEN [ enemies |-> struck.enemies, hits |-> hits, chained |-> TRUE,
             segments |-> struck.segments ]
      ELSE [ enemies |-> left, hits |-> hits, chained |-> FALSE, segments |-> <<>> ]

\* lines 599-610 and 616-627 for one projectile: every overlapping enemy
\* takes the damage, the dead are removed, the chain starts at the first
Strike(es, p, x, y, w, h, damage) ==
  LET hits == Hits(es, x, y, w, h)
      hurt == [ k \in 1..Len(es) |->
                  IF k \in hits THEN [es[k] EXCEPT !.health = es[k].health - damage]
                  ELSE es[k] ]
      left == SelectSeq(hurt, StillAlive)
      start_enemy == es[CHOOSE k \in hits : \A i \in hits : k <= i]
      struck == chain_lightning_strike(start_enemy, left, damage \div 2)
  IN  IF hits = {}
      THEN [ enemies |-> es, hits |-> hits, chained |-> ChainTriggered(p, hits),
             segments |-> <<>> ]
      ELSE IF ChainTriggered(p, hits)
      THEN [ enemies |-> struck.enemies, hits |-> hits, chained |-> TRUE,
             segments |-> struck.segments ]
      ELSE [ enemies |-> left, hits |-> hits, chained |-> FALSE, segments |-> <<>> ]

\* lines 597-611: the player bullets from position k on, in order.  acc holds
\* the enemy group, the bullets kept and what the pass observed: miss counts
\* the bullets that overlapped no enemy, miss_lost those of them that the
\* pass consumed or that started a chain.
RECURSIVE PlayerBulletPass(_, _, _, _)
PlayerBulletPass(bs, k, p, acc) ==
  IF k > Len(bs) THEN acc
  ELSE
    LET b == bs[k]
        r == Strike(acc.enemies, p, b.x, b.y, BulletW, BulletH, b.damage)
        gone == BulletConsumed(r.hits)
    IN  PlayerBulletPass(bs, k + 1, p,
          [ enemies |-> r.enemies,
            kept |-> IF gone THEN acc.kept ELSE Append(acc.kept, b),
            miss |-> acc.miss + (IF r.hits = {} THEN 1 ELSE 0),
            miss_lost |-> acc.miss_lost
                            + (IF r.hits = {} /\ (gone \/ r.chained) THEN 1 ELSE 0),
            chains |-> acc.chains + (IF r.chained THEN 1 ELSE 0) ])

\* a ball that is taken out one collision late
on_collision_late(b) ==
  IF b.remaining_collisions - 1 < 0 THEN <<>>
  ELSE << [b EXCEPT !.remaining_collisions = b.remaining_collisions - 1] >>

\* BouncyBall.on_collision: the group after the collision of ball b
on_collision(b) ==
  IF b.remaining_collisions - 1 <= 0 THEN <<>>
  ELSE << [b EXCEPT !.remaining_collisions = b.remaining_collisions - 1] >>

\* lines 614-628: the bouncy balls from position k on
RECURSIVE BallPass(_, _, _, _)
BallPass(bs, k, p, acc) ==
  IF k > Len(bs) THEN acc
  ELSE
    LET b == bs[k]
        r == Strike(acc.enemies, p, b.x, b.y, BOUNCY_BALL_SIZE, BOUNCY_BALL_SIZE, b.damage)
    IN  BallPass(bs, k + 1, p,
          [ enemies |-> r.enemies,
            kept |-> acc.kept \o (IF r.hits # {} THEN on_collision(b) ELSE <<b>>),
            chains |-> acc.chains + (IF r.chained THEN 1 ELSE 0) ])

\* line 633: max(0.0, player.health - bullet.damage)
TakeDamage(p, damage) == [p EXCEPT !.health = Max(0, p.health - damage)]

\* a payback that does not ask for the ability
ThornsWithoutAbility(es, p, owner) ==
  IF IndexOf(es, owner) # 0
  THEN LET NotOwner(e) == e.id # owner IN SelectSeq(es, NotOwner)
  ELSE es

\* lines 636-637: thorns removes the owner if it is in the enemy group
Thorns(es, p, owner) ==
  IF p.has_thorns /\ IndexOf(es, owner) # 0
  THEN LET NotOwner(e) == e.id # owner IN SelectSeq(es, NotOwner)
  ELSE es

\* a defeat test that misses the health 0
DefeatedBelowZero(p) == p.health < 0

\* line 639: player.health <= 0
Defeated(p) == p.health <= 0

\* lines 631-640: the enemy bullets from position k on
RECURSIVE EnemyBulletPass(_, _, _, _)
EnemyBulletPass(bs, k, fs, acc) ==
  IF k > Len(bs) THEN acc
  ELSE
    LET b == bs[k]
        hit == Collide(acc.player.x, acc.player.y, PlayerW, PlayerH,
                       b.x, b.y, BulletW, BulletH)
        p == TakeDamage(acc.player, b.damage)
    IN  EnemyBulletPass(bs, k + 1, fs,
          IF hit
          THEN [ player |-> p,
                 enemies |-> Thorns(acc.enemies, acc.player, b.owner),
                 kept |-> acc.kept,
                 state |-> IF Defeated(p) THEN "game_over" ELSE acc.state,
                 struck |-> acc.struck + 1 ]
          ELSE [acc EXCEPT !.kept = Append(acc.kept, b)])

(***************************************************************************)
(* The frame update (lines 567-652).                                       *)
(***************************************************************************)
\* random.sample(powerups, 3): three catalog entries without replacement
Samples ==
  { s \in [1..3 -> Catalog] :
      /\ s[1] # s[2] /\ s[1] # s[3] /\ s[2] # s[3]
      /\ s[2] = (s[1] % 9) + 1 /\ s[3] = (s[2] % 9) + 1 }

\* a choice before every even wave
ShouldChoosePowerupEven(w) == w > 1 /\ w % 2 = 0

\* line 645: should_choose_powerup for the incremented wave number
ShouldChoosePowerup(w) == w > 1 /\ (w - 1) % 2 = 0

\* a wave-clear check that does not look at the state
WaveClearDueAnyState(es, st) == es = <<>>

\* line 643: if not enemies and state == "playing"
WaveClearDue(es, st) == es = <<>> /\ st = "playing"

\* lines 643-652, taken when the enemy group is empty and the state playing
WaveCleared ==
  /\ wave + 1 <= MaxWave
  /\ wave' = wave + 1
  /\ IF ShouldChoosePowerup(wave + 1)
     THEN /\ \E s \in Samples : powerup_choices' = s
          /\ powerup_card_rects' = build_powerup_card_rects(fullscreen, 3)
          /\ state' = "choosing"
          /\ pending_wave' = wave + 1
          /\ enemies' = <<>>
     ELSE /\ enemies' = create_wave(wave + 1, fullscreen)
          /\ state' = "playing"
          /\ UNCHANGED <<powerup_choices, powerup_card_rects, pending_wave>>

\* a frame whose ball pass comes before its player-bullet pass
PlayingBallFirst(direction, sign, gate, p1, balls2, es1, pb1, eb1) ==
  LET fired == FireAll(es1, eb1, now, gate)
      r2 == BallPass(balls2, 1, p1,
              [ enemies |-> fired.enemies, kept |-> <<>>, chains |-> 0 ])
      r1 == PlayerBulletPass(pb1, 1, p1,
              [ enemies |-> r2.enemies, kept |-> <<>>, miss |-> 0,
                miss_lost |-> 0, chains |-> 0 ])
      r3 == EnemyBulletPass(fired.enemy_bullets, 1, fullscreen,
              [ player |-> p1, enemies |-> r1.enemies, kept |-> <<>>,
                state |-> "playing", struck |-> 0 ])
  IN  /\ player' = r3.player
      /\ player_bullets' = r1.kept
      /\ bouncy_balls' = r2.kept
      /\ enemy_bullets' = r3.kept
      /\ last' = [ op |-> "update", arg |-> direction, from |-> state,
                   miss |-> r1.miss, miss_lost |-> r1.miss_lost,
                   chains |-> r1.chains + r2.chains,
                   struck |-> r3.struck,
                   left |-> Len(r3.enemies), at_check |-> r3.state ]
      /\ IF r3.enemies = <<>> /\ r3.state = "playing"
         THEN WaveCleared
         ELSE /\ enemies' = r3.enemies
              /\ state' = r3.state
              /\ UNCHANGED <<wave, powerup_choices, powerup_card_rects, pending_wave>>

\* lines 568-652 in the state playing: direction is the movement key state,
\* sign the ball's random side, gate the enemies that pass the fire gate
Playing(direction, sign, gate, p1, balls2, es1, pb1, eb1) ==
  LET fired == FireAll(es1, eb1, now, gate)
      r1 == PlayerBulletPass(pb1, 1, p1,
              [ enemies |-> fired.enemies, kept |-> <<>>, miss |-> 0,
                miss_lost |-> 0, chains |-> 0 ])
      r2 == BallPass(balls2, 1, p1,
              [ enemies |-> r1.enemies, kept |-> <<>>, chains |-> 0 ])
      r3 == EnemyBulletPass(fired.enemy_bullets, 1, fullscreen,
              [ player |-> p1, enemies |-> r2.enemies, kept |-> <<>>,
                state |-> "playing", struck |-> 0 ])
  IN  /\ player' = r3.player
      /\ player_bullets' = r1.kept
      /\ bouncy_balls' = r2.kept
      /\ enemy_bullets' = r3.kept
      /\ last' = [ op |-> "update", arg |-> direction, from |-> state,
                   miss |-> r1.miss, miss_lost |-> r1.miss_lost,
                   chains |-> r1.chains + r2.chains,
                   struck |-> r3.struck,
                   left |-> Len(r3.enemies), at_check |-> r3.state ]
      /\ IF WaveClearDue(r3.enemies, r3.state)
         THEN WaveCleared
         ELSE /\ enemies' = r3.enemies
              /\ state' = r3.state
              /\ UNCHANGED <<wave, powerup_choices, powerup_card_rects, pending_wave>>

\* a frame update that does not test the state
ActiveAlways(st) == TRUE

\* line 568: the simulation runs only in the state playing
Active(st) == st = "playing"

\* the rest of one pass of the while loop after the events (lines 567-706)
Update ==
  /\ pc = "events"
  /\ pc' = "tick"
  /\ UNCHANGED <<now, dt, fullscreen, toggles, chain>>
  /\ IF ~Active(state)
     THEN /\ UNCHANGED simvars
          /\ last' = Seen("update", None)
     ELSE \E direction \in {-1, 0, 1}, sign \in BallSigns(player, bouncy_balls) :
            LET p1 == Move(player, direction, dt, fullscreen)
                balls1 == ensure_bouncy_ball_active(p1, bouncy_balls, fullscreen, sign)
                GonePB(b) == ~PlayerBulletGone(b)
                GoneEB(b) == ~EnemyBulletGone(b, fullscreen)
                pb1 == SelectSeq([ k \in 1..Len(player_bullets) |->
                                BulletUpdate(player_bullets[k], dt) ], GonePB)
                eb1 == SelectSeq([ k \in 1..Len(enemy_bullets) |->
                                BulletUpdate(enemy_bullets[k], dt) ], GoneEB)
                balls2 == IF balls1 = <<>> THEN <<>>
                          ELSE BallUpdate(balls1[1], dt, fullscreen)
                es1 == [ k \in 1..Len(enemies) |-> EnemyUpdate(enemies[k], dt, fullscreen) ]
            IN  \E gate \in SUBSET { k \in 1..Len(es1) : CanShoot(es1[k], now) } :
                  Playing(direction, sign, gate, p1, balls2, es1, pb1, eb1)

Next == Tick \/ KeyDown \/ MouseDown \/ Update

Spec == Init /\ [][Next]_vars

\* the same program with a user who also toggles the display mode
NextDisplay == Next \/ KeyF11

SpecDisplay == Init /\ [][NextDisplay]_vars

(***************************************************************************)
(* Unit runs of chain_lightning_strike: one call on an enemy group drawn   *)
(* from a grid of positions and healths.  The start enemy is a member of   *)
(* the group, or an enemy the bullet has just killed and removed from it   *)
(* (lines 600-606).                                                        *)
(***************************************************************************)
ChainXs == {25, 125}
ChainHealths == {HP \div 4, 2 * HP}
ChainDamages == {HP \div 2}

ChainEnemy(k, x, health) ==
  [NewEnemy(1, k - 1, x, config.enemy.start_y) EXCEPT !.health = health]

ChainInit ==
  /\ pc = "chain"
  /\ now = 0
  /\ dt = 0
  /\ fullscreen = FALSE
  /\ state = "playing"
  /\ wave = 1
  /\ pending_wave = None
  /\ powerup_choices = <<>>
  /\ powerup_card_rects = <<>>
  /\ player = [NewPlayer(FALSE) EXCEPT !.has_chain_lightning = TRUE]
  /\ player_bullets = <<>>
  /\ enemy_bullets = <<>>
  /\ bouncy_balls = <<>>
  /\ toggles = 0
  /\ last = [ op |-> "init", arg |-> None, from |-> "playing" ]
  /\ \E n \in 0..MaxChainEnemies :
       \E xs \in [1..n -> ChainXs], hs \in [1..n -> ChainHealths] :
         /\ enemies = [ k \in 1..n |-> ChainEnemy(k, xs[k], hs[k]) ]
         /\ \E damage \in ChainDamages :
              \/ \E k \in 1..n :
                   chain = [ called |-> FALSE, damage |-> damage,
                             start_enemy |-> ChainEnemy(k, xs[k], hs[k]) ]
              \/ \E x \in ChainXs :
                   chain = [ called |-> FALSE, damage |-> damage,
                             start_enemy |-> ChainEnemy(n + 1, x, 0) ]

\* segments = chain_lightning_strike(start_enemy, enemies, damage)
ChainCall ==
  /\ pc = "chain"
  /\ ~chain.called
  /\ LET r == chain_lightning_strike(chain.start_enemy, enemies, chain.damage)
     IN  /\ enemies' = r.enemies
         /\ chain' = [ called |-> TRUE, damage |-> chain.damage,
                       start_enemy |-> chain.start_enemy,
                       before |-> enemies, segments |-> r.segments ]
  /\ UNCHANGED <<pc, now, dt, fullscreen, state, wave, pending_wave, powerup_choices,
                 powerup_card_rects, player, player_bullets, enemy_bullets,
                 bouncy_balls, toggles, last>>

SpecChain == ChainInit /\ [][ChainCall]_vars

(***************************************************************************)
(* Properties.                                                             *)
(***************************************************************************)
Range(seq) == { seq[k] : k \in 1..Len(seq) }

\* the step is a frame update that ran the simulation
PlayedFrame == last'.op = "update" /\ last'.from = "playing"
\* the step is a selection event that picks one of the offers
ValidSelection ==
  /\ state = "choosing"
  /\ \/ last'.op = "key" /\ last'.arg = "digit"
     \/ last'.op = "click" /\ last'.arg = "card"
\* the step is the restart key
RestartKey == last'.op = "key" /\ last'.arg = "r"

\* C1: the state changes only from playing to choosing when a frame update
\* clears a wave, from choosing to playing on a valid selection, from
\* playing to game_over when a frame update leaves the player at health 0,
\* and from game_over to playing on the restart key.
C1_Transitions ==
  [][ state' # state =>
        \/ /\ state = "playing" /\ state' = "choosing"
           /\ PlayedFrame /\ last'.left = 0 /\ wave' = wave + 1
        \/ /\ state = "choosing" /\ state' = "playing"
           /\ ValidSelection
        \/ /\ state = "playing" /\ state' = "game_over"
           /\ PlayedFrame /\ player'.health = 0
        \/ /\ state = "game_over" /\ state' = "playing"
           /\ RestartKey ]_vars

\* a defeat in wave 3: the session went playing, choosing, playing, game_over
C1_Witness ==
  /\ state = "game_over" /\ last.op = "update" /\ last.from = "playing"
  /\ wave = 3

\* C2: the player's health stays between 0 and the maximum health.
C2_HealthRange == 0 <= player.health /\ player.health <= player.max_health

\* a damaged player after the heal upgrade, still below the maximum
C2_Witness ==
  /\ last.op \in {"key", "click"} /\ last.from = "choosing"
  /\ player.health > HP /\ player.health < player.max_health

\* C3: a player at health 0 is in the state game_over (so the frame update
\* in which an enemy bullet takes the last health ends in game_over), and
\* game_over is left only by the restart key.
C3_Defeat ==
  /\ [](player.health = 0 => state = "game_over")
  /\ [][ state = "game_over" /\ ~RestartKey =>
           state' = "game_over" /\ player'.health = 0 ]_vars

\* the frame update in which an enemy bullet took the last health
C3_Witness ==
  /\ last.op = "update" /\ last.from = "playing" /\ last.struck >= 1
  /\ player.health = 0 /\ state = "game_over"

\* the fresh enemies of wave w
FreshWave(es, w) ==
  /\ Len(es) = WaveTotal(w)
  /\ Len(es) > 0
  /\ \A k \in 1..Len(es) :
       /\ es[k].id[1] = w
       /\ es[k].health = Max(HP, (config.enemy.base_health * HP
                                    * (100 + (w - 1) * config.wave.health_scaling_pct)) \div 100)
       /\ es[k].last_shot_time = 0
       /\ es[k].direction = 1

\* C4: a frame update that reaches the wave-clear check with no enemy left
\* and the state playing adds 1 to the wave number w; if the new w is odd
\* and at least 3 the state becomes choosing with three distinct offers,
\* pending wave w and no enemies; otherwise the enemies of wave w are
\* generated and the state stays playing.
C4_WaveClear ==
  [][ (PlayedFrame /\ last'.left = 0 /\ last'.at_check = "playing") =>
        /\ wave' = wave + 1
        /\ IF wave' >= 3 /\ wave' % 2 = 1
           THEN /\ state' = "choosing"
                /\ Len(powerup_choices') = 3
                /\ Cardinality(Range(powerup_choices')) = 3
                /\ Range(powerup_choices') \subseteq Catalog
                /\ pending_wave' = wave'
                /\ enemies' = <<>>
           ELSE /\ state' = "playing"
                /\ FreshWave(enemies', wave')
                /\ pending_wave' = None
                /\ powerup_choices' = <<>> ]_vars

\* wave 2 was cleared: the offers for wave 3 are up
C4_Witness ==
  /\ last.op = "update" /\ last.from = "playing"
  /\ state = "choosing" /\ wave = 3 /\ pending_wave = 3 /\ enemies = <<>>

\* how far the step moved the origin of the clock (see Tick)
ClockShift == IF last'.op = "tick" THEN now + dt' - now' ELSE 0

\* the simulation is after the step what it was before it
SimulationKept ==
  /\ wave' = wave
  /\ player' = [player EXCEPT !.last_shot_time = Rebase(player.last_shot_time, ClockShift)]
  /\ enemies' = [ k \in 1..Len(enemies) |->
                    [enemies[k] EXCEPT
                       !.last_shot_time = Rebase(enemies[k].last_shot_time, ClockShift)] ]
  /\ UNCHANGED <<player_bullets, enemy_bullets, bouncy_balls>>

\* a step of a frame in choosing or game_over, other than a valid selection
\* and the restart key
FrozenStep ==
  /\ state \in {"choosing", "game_over"}
  /\ ~ValidSelection
  /\ ~RestartKey

\* C5 as stated: every step of a frame in choosing or game_over with no
\* valid selection and no restart leaves the player, the enemies, the three
\* projectile collections and the wave number unchanged.
C5_FrozenAsStated == [][ FrozenStep => SimulationKept ]_vars

\* C5: every step of a frame in choosing or game_over with no valid
\* selection, no restart and no toggle of the display mode leaves the
\* player, the enemies, the three projectile collections and the wave number
\* unchanged; clicks and movement keys have no effect there.
C5_Frozen == [][ FrozenStep /\ last'.op # "f11" => SimulationKept ]_vars

\* a frame update in game_over with enemy bullets in flight
C5_Witness ==
  /\ last.op = "update" /\ last.from = "game_over" /\ state = "game_over"
  /\ enemy_bullets # <<>> /\ enemies # <<>>

\* q is p after the mutation of catalog entry k and nothing else
Upgraded(k, p, q) ==
  LET field == CASE k = 1 -> "bullet_damage"
                 [] k = 2 -> "shoot_cooldown"
                 [] k = 3 -> "bullet_count"
                 [] k = 4 -> "speed"
                 [] k = 5 -> "health"
                 [] k = 6 -> "has_split_shot"
                 [] k = 7 -> "has_thorns"
                 [] k = 8 -> "has_chain_lightning"
                 [] k = 9 -> "has_bouncy_ball"
      value == CASE k = 1 -> p.bullet_damage + HP
                 [] k = 2 -> Max(50000, (p.shoot_cooldown * 85) \div 100)
                 [] k = 3 -> Min(6, p.bullet_count + 1)
                 [] k = 4 -> p.speed + 40
                 [] k = 5 -> Min(p.max_health, p.health + (2 * p.max_health) \div 5)
                 [] OTHER -> TRUE
  IN  /\ DOMAIN q = DOMAIN p
      /\ q[field] = value
      /\ \A f \in DOMAIN p \ {field} : q[f] = p[f]

\* the step applied offer idx and resumed play at the pending wave
Chosen(idx) ==
  /\ idx \in 1..Len(powerup_choices)
  /\ Upgraded(powerup_choices[idx], player, player')
  /\ powerup_choices' = <<>>
  /\ pending_wave' = None
  /\ state' = "playing"
  /\ wave' = wave
  /\ pending_wave = wave
  /\ FreshWave(enemies', pending_wave)

\* an upgradeable stat of the player differs after the step
StatsChanged ==
  \/ \E f \in {"bullet_damage", "shoot_cooldown", "bullet_count", "speed",
               "has_split_shot", "has_thorns", "has_chain_lightning",
               "has_bouncy_ball"} : player'[f] # player[f]
  \/ player'.health > player.health

DigitOf == [ key \in {"1", "2", "3"} |-> CASE key = "1" -> 1 [] key = "2" -> 2 [] OTHER -> 3 ]

\* C6: in choosing, the digit key n and a click on card n apply exactly the
\* mutation of offer n, empty the offers, clear the pending wave, set the
\* state to playing and generate the enemies of the pending wave without
\* another increment of the wave number; the player's stats change only in
\* the step that leaves choosing (or in a restart), so one upgrade at most
\* is applied per entry into choosing.
C6_Selection ==
  [][ /\ \A key \in {"1", "2", "3"} :
           state = "choosing" /\ KeyEvent(key) => Chosen(DigitOf[key])
      /\ \A pos \in Clicks :
           \A n \in 1..Len(powerup_card_rects) :
             ( /\ state = "choosing" /\ MouseEvent(pos[1], pos[2])
               /\ powerup_card_rects[n] <= pos[1] /\ pos[1] < powerup_card_rects[n] + 360
               /\ 200 <= pos[2] /\ pos[2] < 380 ) => Chosen(n)
      /\ StatsChanged =>
           \/ state = "choosing" /\ state' = "playing" /\ ValidSelection
           \/ state = "game_over" /\ RestartKey ]_vars

\* play resumed at wave 3 with one more bullet per shot
C6_Witness ==
  /\ last.op \in {"key", "click"} /\ last.from = "choosing"
  /\ state = "playing" /\ wave = 3 /\ enemies # <<>>
  /\ player.bullet_count = config.player.bullet_count + 1

\* a selection event that picks none of the offers: a key that is no digit
\* of an offer, a digit outside choosing, a click on no card outside playing
InvalidSelection ==
  \/ /\ last'.op = "key"
     /\ \/ last'.arg = "other"
        \/ last'.arg = "digit" /\ state # "choosing"
  \/ /\ last'.op = "click"
     /\ last'.arg = "none" /\ state # "playing"

\* C7: a selection outside the offered range, and any selection while the
\* state is not choosing, changes nothing: the state, the offers, the
\* pending wave, the enemies and the player stay as they are.
C7_InvalidSelection == [][ InvalidSelection => UNCHANGED simvars ]_vars

\* the key 4 during the choice of an upgrade
C7_Witness ==
  /\ last.op = "key" /\ last.arg = "other" /\ last.from = "choosing"
  /\ state = "choosing" /\ Len(powerup_choices) = 3

\* the session reset_game and main() start a game with
FreshSession ==
  /\ state' = "playing"
  /\ wave' = 1
  /\ player'.health = player'.max_health
  /\ player'.max_health = config.player.max_health * HP
  /\ player'.speed = config.player.speed
  /\ player'.shoot_cooldown = config.player.shoot_cooldown_ms * 1000
  /\ player'.bullet_speed = config.player.bullet_speed
  /\ player'.bullet_damage = config.player.bullet_damage * HP
  /\ player'.bullet_count = config.player.bullet_count
  /\ player'.last_shot_time = 0
  /\ ~player'.has_split_shot /\ ~player'.has_thorns
  /\ ~player'.has_chain_lightning /\ ~player'.has_bouncy_ball
  /\ FreshWave(enemies', 1)
  /\ player_bullets' = <<>> /\ enemy_bullets' = <<>> /\ bouncy_balls' = <<>>
  /\ pending_wave' = None
  /\ powerup_choices' = <<>>

\* C8: the restart key in game_over gives a new session (playing, wave 1,
\* a fresh player at full health with the configured stats and no ability,
\* the fresh enemies of wave 1, no projectile, no pending wave, no offer);
\* in playing and in choosing it changes nothing.
C8_Restart ==
  [][ RestartKey => IF state = "game_over" THEN FreshSession
                    ELSE UNCHANGED simvars ]_vars

\* a restart after a defeat
C8_Witness ==
  /\ last.op = "key" /\ last.arg = "r" /\ last.from = "game_over"
  /\ state = "playing" /\ wave = 1

\* player bullet b after its update of this frame
MovedBullet(b) == [b EXCEPT !.x = Advance(b.x, b.vx, dt), !.y = Advance(b.y, b.vy, dt)]

\* the rectangle of bullet b overlaps no enemy of this frame's pass
OverlapsNone(b) ==
  \A j \in 1..Len(enemies) :
    LET e == EnemyUpdate(enemies[j], dt, fullscreen)
    IN  \/ b.x + 6 <= e.x \/ e.x + 50 <= b.x
        \/ b.y + 18 <= e.y \/ e.y + 30 <= b.y

IsPrefix(a, b) == Len(a) <= Len(b) /\ \A k \in 1..Len(a) : b[k] = a[k]

\* C9: in a frame update a player bullet that overlaps no enemy starts no
\* chain and is not taken out by the collision pass: if it is still on the
\* screen after its move it is in the collection after the frame; when no
\* bullet overlaps an enemy and there is no ball and no thorns kill, no enemy
\* loses health; outside a frame update the collection only grows (a shot)
\* or is emptied by a restart.
C9_Miss ==
  [][ /\ PlayedFrame =>
           /\ last'.miss_lost = 0
           /\ \A k \in 1..Len(player_bullets) :
                LET b == MovedBullet(player_bullets[k])
                IN  OverlapsNone(b) /\ ~(b.y + 18 < 0) => b \in Range(player_bullets')
           /\ ( /\ \A k \in 1..Len(player_bullets) : OverlapsNone(MovedBullet(player_bullets[k]))
                /\ bouncy_balls = <<>> /\ ~player.has_bouncy_ball
                /\ last'.struck = 0 ) =>
                /\ last'.chains = 0
                /\ Len(enemies') = Len(enemies)
                /\ \A j \in 1..Len(enemies) : enemies'[j].health = enemies[j].health
      /\ ~PlayedFrame /\ player_bullets' # player_bullets =>
           \/ state = "game_over" /\ RestartKey /\ player_bullets' = <<>>
           \/ state = "playing" /\ last'.op = "click" /\ IsPrefix(player_bullets, player_bullets') ]_vars

\* a frame update in which a bullet of a player with chain lightning missed
\* and stayed in the collection
C9_Witness ==
  /\ last.op = "update" /\ last.from = "playing" /\ last.miss >= 1
  /\ player_bullets # <<>> /\ player.has_chain_lightning /\ enemies # <<>>

HealthOf(es, id) == es[CHOOSE k \in 1..Len(es) : es[k].id = id].health
Ids(es) == { es[k].id : k \in 1..Len(es) }

\* C10: after one call of chain_lightning_strike the enemies whose health
\* changed or that left the group are at most 4, the start enemy is not
\* among them, each lost the chain damage once, those at health <= 0 are out
\* of the group and the others in it; the segments are as many as these
\* enemies, min(4, enemies other than the start enemy), with distinct targets.
C10_Chain ==
  chain.called =>
    LET before == chain.before
        seed == chain.start_enemy.id
        damaged == { id \in Ids(before) :
                       \/ id \notin Ids(enemies)
                       \/ HealthOf(enemies, id) # HealthOf(before, id) }
        others == Ids(before) \ {seed}
    IN  /\ Cardinality(damaged) <= 4
        /\ seed \notin damaged
        /\ Ids(enemies) \subseteq Ids(before)
        /\ \A id \in damaged :
             IF id \in Ids(enemies)
             THEN /\ HealthOf(enemies, id) = HealthOf(before, id) - chain.damage
                  /\ HealthOf(enemies, id) > 0
             ELSE HealthOf(before, id) - chain.damage <= 0
        /\ Len(chain.segments) = Cardinality(damaged)
        /\ Cardinality(damaged) = Min(4, Cardinality(others))
        /\ { chain.segments[k].target : k \in 1..Len(chain.segments) } = damaged

\* a call with five enemies besides the start enemy: four hops, a kill
C10_Witness ==
  /\ chain.called
  /\ Cardinality(Ids(chain.before) \ {chain.start_enemy.id}) > 4
  /\ Len(chain.segments) = 4
  /\ Len(enemies) < Len(chain.before)

(***************************************************************************)
(* Unit runs of chain_lightning_strike on enemies spread over the plane:   *)
(* the centres come from a set with equal and unequal distances; every     *)
(* second enemy dies of one chain hit.                                     *)
(***************************************************************************)
NearestCentres == { <<25, 40>>, <<75, 40>>, <<85, 100>>, <<200, 40>>, <<200, 100>> }

NearestEnemy(k, c) ==
  [NewEnemy(1, k - 1, c[1], c[2]) EXCEPT !.health = IF k % 2 = 1 THEN HP \div 4 ELSE 2 * HP]

NearestInit ==
  /\ pc = "chain"
  /\ now = 0
  /\ dt = 0
  /\ fullscreen = FALSE
  /\ state = "playing"
  /\ wave = 1
  /\ pending_wave = None
  /\ powerup_choices = <<>>
  /\ powerup_card_rects = <<>>
  /\ player = [NewPlayer(FALSE) EXCEPT !.has_chain_lightning = TRUE]
  /\ player_bullets = <<>>
  /\ enemy_bullets = <<>>
  /\ bouncy_balls = <<>>
  /\ toggles = 0
  /\ last = [ op |-> "init", arg |-> None, from |-> "playing" ]
  /\ \E n \in 0..MaxNearestEnemies :
       \E cs \in [1..n -> NearestCentres] :
         /\ enemies = [ k \in 1..n |-> NearestEnemy(k, cs[k]) ]
         /\ \/ \E k \in 1..n :
                 chain = [ called |-> FALSE, damage |-> HP \div 2,
                           start_enemy |-> NearestEnemy(k, cs[k]) ]
            \/ \E c \in NearestCentres :
                 chain = [ called |-> FALSE, damage |-> HP \div 2,
                           start_enemy |-> [NearestEnemy(n + 1, c) EXCEPT !.health = 0] ]

SpecNearest == NearestInit /\ [][ChainCall]_vars

\* the centre of the enemy of es with identity id
CentreOf(es, id) ==
  LET e == es[CHOOSE k \in 1..Len(es) : es[k].id = id]
  IN  << e.x + 25, e.y + 15 >>

PlaceOf(es, id) == CHOOSE k \in 1..Len(es) : es[k].id = id

SquareDistance(a, b) == (a[1] - b[1]) * (a[1] - b[1]) + (a[2] - b[2]) * (a[2] - b[2])

\* C11: every hop of a chain goes from the current position (the start
\* enemy's centre, then the centre of the enemy hit last) to a candidate
\* (not the start enemy, not hit before in this chain) at the least distance
\* from it, and among the candidates at that distance to the first in the
\* order of the enemy group.
C11_NearestOrder ==
  chain.called =>
    \A k \in 1..Len(chain.segments) :
      LET before == chain.before
          seed == chain.start_enemy
          hit == { chain.segments[j].target : j \in 1..(k - 1) }
          candidates == (Ids(before) \ {seed.id}) \ hit
          pos == IF k = 1 THEN << seed.x + 25, seed.y + 15 >>
                 ELSE CentreOf(before, chain.segments[k - 1].target)
          t == chain.segments[k].target
      IN  /\ t \in candidates
          /\ chain.segments[k].from = pos
          /\ chain.segments[k].to = CentreOf(before, t)
          /\ \A c \in candidates :
               /\ SquareDistance(CentreOf(before, t), pos)
                    <= SquareDistance(CentreOf(before, c), pos)
               /\ SquareDistance(CentreOf(before, t), pos)
                    = SquareDistance(CentreOf(before, c), pos)
                  => PlaceOf(before, t) <= PlaceOf(before, c)

\* a chain of three hops that passes over an enemy nearer to the start enemy
\* than its last target and meets a tie on the way
C11_Witness ==
  /\ chain.called /\ Len(chain.segments) >= 3
  /\ \E k \in 2..Len(chain.segments) :
       \E c \in Ids(chain.before) \ {chain.start_enemy.id} :
         /\ c # chain.segments[k].target
         /\ c \notin { chain.segments[j].target : j \in 1..(k - 1) }
         /\ SquareDistance(CentreOf(chain.before, c),
                           << chain.start_enemy.x + 25, chain.start_enemy.y + 15 >>)
              < SquareDistance(CentreOf(chain.before, chain.segments[k].target),
                               << chain.start_enemy.x + 25, chain.start_enemy.y + 15 >>)
  /\ \E a, b \in Ids(chain.before) :
       a # b /\ CentreOf(chain.before, a) = CentreOf(chain.before, b)

(***************************************************************************)
(* Unit runs of the bouncy ball: the ball of a player at one of four       *)
(* places in either display mode, with some of its collisions used up, and *)
(* up to two enemies in its way; each step is the ball's part of a frame,  *)
(* its update (line 580) and its collision pass (lines 613-628), for a     *)
(* frame time drawn.                                                       *)
(***************************************************************************)
BallDts == {1000, 4000}
BallPlayerXs == {0, 180, 210, 420}
BallCollisionsLeft == {1, 2, BOUNCY_BALL_COLLISIONS}
BallEnemyCentres == {180, 200, 420}
BallEnemyHealths == {HP \div 4, 2 * HP}

BallEnemy(k, cx, health) ==
  [NewEnemy(1, k - 1, cx, config.enemy.start_y) EXCEPT !.health = health]

BallInit ==
  /\ pc = "ball"
  /\ now = 0
  /\ dt = 0
  /\ fullscreen \in BOOLEAN
  /\ state = "playing"
  /\ wave = 1
  /\ pending_wave = None
  /\ powerup_choices = <<>>
  /\ powerup_card_rects = <<>>
  /\ player_bullets = <<>>
  /\ enemy_bullets = <<>>
  /\ toggles = 0
  /\ chain = NoChain
  /\ last = [ op |-> "init", arg |-> None, from |-> "playing" ]
  /\ \E x \in BallPlayerXs :
       player = [NewPlayer(fullscreen) EXCEPT !.x = x, !.has_bouncy_ball = TRUE]
  /\ \E sign \in {-1, 1}, left \in BallCollisionsLeft :
       bouncy_balls =
         [ k \in {1} |->
             [ensure_bouncy_ball_active(player, <<>>, fullscreen, sign)[1]
                EXCEPT !.remaining_collisions = left] ]
  /\ \E n \in 0..2 :
       \E cs \in [1..n -> BallEnemyCentres], hs \in [1..n -> BallEnemyHealths] :
         enemies = [ k \in 1..n |-> BallEnemy(k, cs[k], hs[k]) ]

\* lines 580 and 613-628 of one frame
BallFrame ==
  /\ pc = "ball"
  /\ bouncy_balls # <<>>
  /\ \E d \in BallDts :
       LET moved == BallUpdate(bouncy_balls[1], d, fullscreen)
           r == BallPass(moved, 1, player,
                         [ enemies |-> enemies, kept |-> <<>>, chains |-> 0 ])
       IN  /\ dt' = d
           /\ bouncy_balls' = r.kept
           /\ enemies' = r.enemies
           /\ last' = [ op |-> "ball", arg |-> None, from |-> state,
                        before |-> bouncy_balls[1], moved |-> moved ]
  /\ UNCHANGED <<pc, now, fullscreen, state, wave, pending_wave, powerup_choices,
                 powerup_card_rects, player, player_bullets, enemy_bullets,
                 toggles, chain>>

SpecBall == BallInit /\ [][BallFrame]_vars

\* the places in es of the enemies whose rectangle overlaps ball b
BallOverlaps(es, b) ==
  { j \in 1..Len(es) :
      /\ es[j].x < b.x + 36 /\ b.x < es[j].x + 50
      /\ es[j].y < b.y + 36 /\ b.y < es[j].y + 30 }

\* C12: a ball in the collection has remaining_collisions >= 1 and
\* lifetime > 0; in a frame the ball leaves the collection if its lifetime
\* runs out; otherwise a ball that overlaps no enemy stays as it is, a ball
\* that overlaps at least one enemy loses exactly one of its remaining
\* collisions whatever the number of enemies, stays if one or more are left
\* and leaves if it had one.
C12_BallCollisions ==
  /\ [](\A k \in 1..Len(bouncy_balls) :
          bouncy_balls[k].remaining_collisions >= 1 /\ bouncy_balls[k].lifetime > 0)
  /\ [][ last'.op = "ball" =>
           LET b == bouncy_balls[1]
           IN  IF b.lifetime - dt' <= 0
               THEN bouncy_balls' = <<>> /\ enemies' = enemies
               ELSE LET m == last'.moved[1]
                        over == BallOverlaps(enemies, m)
                    IN  /\ m.remaining_collisions = b.remaining_collisions
                        /\ m.lifetime = b.lifetime - dt'
                        /\ over = {} => bouncy_balls' = <<m>> /\ enemies' = enemies
                        /\ over # {} /\ m.remaining_collisions = 1 => bouncy_balls' = <<>>
                        /\ over # {} /\ m.remaining_collisions > 1 =>
                             bouncy_balls' =
                               << [m EXCEPT !.remaining_collisions = m.remaining_collisions - 1] >>
                        /\ \A j \in 1..Len(enemies) :
                             j \in over =>
                               \/ enemies[j].health - m.damage <= 0
                                    /\ enemies[j].id \notin Ids(enemies')
                               \/ enemies[j].health - m.damage > 0
                                    /\ enemies[j].id \in Ids(enemies')
                                    /\ HealthOf(enemies', enemies[j].id)
                                         = enemies[j].health - m.damage ]_vars

\* a ball with one collision left hit exactly one enemy and is gone
C12_Witness ==
  /\ last.op = "ball" /\ bouncy_balls = <<>>
  /\ last.moved # <<>>
  /\ last.moved[1].remaining_collisions = 1
  /\ Len(enemies) = 2
  /\ \E j \in 1..2 :
       /\ BallOverlaps(enemies, last.moved[1]) = {j}
       /\ enemies[j].health = 2 * HP - last.moved[1].damage

\* C20: a ball in the collection lies inside the screen and its velocity
\* has the size it had at its spawn; an update negates vx exactly when the
\* moved rectangle touches or crosses the left or the right edge and vy
\* exactly when it touches or crosses the top or the bottom edge.
C20_BallReflection ==
  /\ [](\A k \in 1..Len(bouncy_balls) :
          LET b == bouncy_balls[k]
          IN  /\ 0 <= b.x /\ b.x + 36 <= ScreenW(fullscreen)
              /\ 0 <= b.y /\ b.y + 36 <= ScreenH(fullscreen)
              /\ b.vx \in {-42, 42} /\ b.vy \in {-36, 36})
  /\ [][ last'.op = "ball" /\ last'.moved # <<>> =>
           LET b == bouncy_balls[1]
               m == last'.moved[1]
               x1 == Advance(b.x, b.vx, dt')
               y1 == Advance(b.y, b.vy, dt')
               atx == x1 <= 0 \/ x1 + 36 >= ScreenW(fullscreen)
               aty == y1 <= 0 \/ y1 + 36 >= ScreenH(fullscreen)
           IN  /\ m.vx = IF atx THEN -b.vx ELSE b.vx
               /\ m.vy = IF aty THEN -b.vy ELSE b.vy
               /\ 0 <= m.x /\ m.x + 36 <= ScreenW(fullscreen)
               /\ 0 <= m.y /\ m.y + 36 <= ScreenH(fullscreen)
               /\ ~atx => m.x = x1
               /\ ~aty => m.y = y1 ]_vars

\* an update that took the ball over the left edge and the top edge at once
C20_Witness ==
  /\ last.op = "ball" /\ last.moved # <<>>
  /\ Advance(last.before.x, last.before.vx, dt) < 0
  /\ Advance(last.before.y, last.before.vy, dt) < 0
  /\ last.moved[1].vx = -last.before.vx
  /\ last.moved[1].vy = -last.before.vy

(***************************************************************************)
(* Unit runs of the pass of the enemy bullets against the player (lines    *)
(* 630-640): a player with or without thorns, up to two enemy bullets on   *)
(* the player or beside it, owned by an enemy of the group, by an enemy a  *)
(* player bullet has killed, or by an enemy of an earlier wave.            *)
(***************************************************************************)
ThornsOwners == { <<2, 0>>, <<2, 1>>, <<1, 0>> }
ThornsBulletXs == {100, 237}
ThornsGroups == { <<1>>, <<2>>, <<1, 2>> }
ThornsHealths == {HP \div 4, 3 * HP}

ThornsEnemy(k, health) ==
  [NewEnemy(2, k - 1, 100 * k, config.enemy.start_y) EXCEPT !.health = health]

ThornsInit ==
  /\ pc = "enemy_bullets"
  /\ now = 0
  /\ dt = 0
  /\ fullscreen = FALSE
  /\ state = "playing"
  /\ wave = 2
  /\ pending_wave = None
  /\ powerup_choices = <<>>
  /\ powerup_card_rects = <<>>
  /\ player_bullets = <<>>
  /\ bouncy_balls = <<>>
  /\ toggles = 0
  /\ chain = NoChain
  /\ last = [ op |-> "init", arg |-> None, from |-> "playing" ]
  /\ \E thorns \in BOOLEAN :
       player = [NewPlayer(FALSE) EXCEPT !.has_thorns = thorns]
  /\ \E g \in ThornsGroups, health \in ThornsHealths :
       enemies = [ k \in 1..Len(g) |-> ThornsEnemy(g[k], health) ]
  /\ \E n \in 0..2 :
       \E xs \in [1..n -> ThornsBulletXs], owners \in [1..n -> ThornsOwners] :
         enemy_bullets =
           [ k \in 1..n |->
               NewBullet(xs[k], player.y + 10, 0, config.enemy.bullet_speed,
                         config.enemy.bullet_damage * HP, owners[k]) ]

\* lines 630-640 of one frame
EnemyBulletCollisions ==
  /\ pc = "enemy_bullets"
  /\ pc' = "done"
  /\ LET r == EnemyBulletPass(enemy_bullets, 1, fullscreen,
                [ player |-> player, enemies |-> enemies, kept |-> <<>>,
                  state |-> state, struck |-> 0 ])
     IN  /\ player' = r.player
         /\ enemies' = r.enemies
         /\ enemy_bullets' = r.kept
         /\ state' = r.state
         /\ last' = [ op |-> "enemy_bullets", arg |-> None, from |-> state,
                      bullets |-> enemy_bullets, enemies |-> enemies ]
  /\ UNCHANGED <<now, dt, fullscreen, wave, pending_wave, powerup_choices,
                 powerup_card_rects, player_bullets, bouncy_balls, toggles, chain>>

SpecThorns == ThornsInit /\ [][EnemyBulletCollisions]_vars

\* the rectangle of enemy bullet b overlaps the player's
OnPlayer(b) ==
  /\ b.x < player.x + 60 /\ player.x < b.x + 6
  /\ b.y < player.y + 28 /\ player.y < b.y + 18

\* C13: the pass of the enemy bullets takes every bullet that overlaps the
\* player out of the collection and leaves the others; with thorns the
\* enemies that own such a bullet and are in the group leave it, whatever
\* their health, and the other enemies stay as they are; without thorns,
\* and for owners that are not in the group, no enemy leaves.
C13_Thorns ==
  [][ last'.op = "enemy_bullets" =>
        LET NotOnPlayer(b) == ~OnPlayer(b)
            owners == { enemy_bullets[k].owner :
                          k \in { j \in 1..Len(enemy_bullets) : OnPlayer(enemy_bullets[j]) } }
            Stays(e) == ~(player.has_thorns /\ e.id \in owners)
        IN  /\ enemy_bullets' = SelectSeq(enemy_bullets, NotOnPlayer)
            /\ enemies' = SelectSeq(enemies, Stays)
            /\ ~player.has_thorns => enemies' = enemies
            /\ owners \cap Ids(enemies) = {} => enemies' = enemies ]_vars

\* thorns took a healthy enemy out for its first bullet on the player, and
\* the second bullet of the same enemy took nobody out
C13_Witness ==
  /\ last.op = "enemy_bullets" /\ player.has_thorns
  /\ Len(last.bullets) = 2 /\ enemy_bullets = <<>>
  /\ last.bullets[1].owner = last.bullets[2].owner
  /\ Len(last.enemies) = 2 /\ Len(enemies) = 1
  /\ last.enemies[1].health = 3 * HP
  /\ last.bullets[1].owner = last.enemies[1].id

(***************************************************************************)
(* Unit runs of create_wave: waves 1, 2, ... of a configuration drawn from *)
(* DEFAULT_CONFIG with other grids, scalings, base healths and window      *)
(* widths (the speed scaling is 0.25, which keeps the speeds whole).       *)
(***************************************************************************)
WaveConfigs ==
  { [DEFAULT_CONFIG EXCEPT !.window.width = width,
                           !.enemy.rows = rows,
                           !.enemy.cols = cols,
                           !.enemy.base_health = hb[1],
                           !.wave.health_scaling_pct = hb[2],
                           !.wave.count_scaling_pct = cs,
                           !.wave.speed_scaling_pct = 25] :
      width \in {480, 960}, rows \in {1, 3}, cols \in {1, 6},
      hb \in { <<1, 50>>, <<2, 60>> }, cs \in {0, 12, 50} }

WaveInit ==
  /\ pc = "wave"
  /\ now = 0
  /\ dt = 0
  /\ fullscreen = FALSE
  /\ state = "playing"
  /\ wave = 0
  /\ pending_wave = None
  /\ powerup_choices = <<>>
  /\ powerup_card_rects = <<>>
  /\ player = NewPlayer(FALSE)
  /\ enemies = <<>>
  /\ player_bullets = <<>>
  /\ enemy_bullets = <<>>
  /\ bouncy_balls = <<>>
  /\ toggles = 0
  /\ chain = NoChain
  /\ \E cfg \in WaveConfigs : last = [ op |-> "config", arg |-> None, from |-> "playing",
                                       cfg |-> cfg ]

\* wave += 1; enemies = create_wave(wave, config, screen_rect)
GenerateWave ==
  /\ pc = "wave"
  /\ wave < MaxGenWave
  /\ wave' = wave + 1
  /\ enemies' = create_wave_of(last.cfg, wave + 1, last.cfg.window.width)
  /\ UNCHANGED <<pc, now, dt, fullscreen, state, pending_wave, powerup_choices,
                 powerup_card_rects, player, player_bullets, enemy_bullets,
                 bouncy_balls, toggles, chain, last>>

SpecWave == WaveInit /\ [][GenerateWave]_vars

C15_HealthRoundedUp ==
  (pc = "wave" /\ wave >= 1) =>
    \A k \in 1..Len(enemies) :
      \E n \in 1..100 :
        /\ enemies[k].health = n * HP
        /\ 100 * n >= last.cfg.enemy.base_health
                        * (100 + (wave - 1) * last.cfg.wave.health_scaling_pct)
        /\ \/ n = 1
           \/ 100 * (n - 1) < last.cfg.enemy.base_health
                                * (100 + (wave - 1) * last.cfg.wave.health_scaling_pct)

\* C15: every enemy of wave w starts with the health
\* max(1, base_health * (1 + (w - 1) * health_scaling)), not rounded: at
\* least 1, and whole only when the product is.
C15_Health ==
  (pc = "wave" /\ wave >= 1) =>
    \A k \in 1..Len(enemies) :
      LET product == last.cfg.enemy.base_health
                       * (100 + (wave - 1) * last.cfg.wave.health_scaling_pct)
      IN  /\ enemies[k].health >= HP
          /\ IF product >= 100 THEN 100 * enemies[k].health = HP * product
             ELSE enemies[k].health = HP

\* wave 2 with the default base health 2 and health scaling 0.6: health 3.2
C15_Witness ==
  /\ pc = "wave" /\ wave = 2 /\ enemies # <<>>
  /\ last.cfg.enemy.base_health = 2 /\ last.cfg.wave.health_scaling_pct = 60
  /\ \A k \in 1..Len(enemies) : 5 * enemies[k].health = 16 * HP

(***************************************************************************)
(* Unit runs of the upgrade catalog: any upgrades, in any order, applied   *)
(* to a new player; last counts the applications.                          *)
(***************************************************************************)
UpgradesInit ==
  /\ pc = "upgrades"
  /\ now = 0
  /\ dt = 0
  /\ fullscreen = FALSE
  /\ state = "choosing_powerup"
  /\ wave = 1
  /\ pending_wave = None
  /\ powerup_choices = <<>>
  /\ powerup_card_rects = <<>>
  /\ player = NewPlayer(FALSE)
  /\ enemies = <<>>
  /\ player_bullets = <<>>
  /\ enemy_bullets = <<>>
  /\ bouncy_balls = <<>>
  /\ toggles = 0
  /\ chain = NoChain
  /\ last = [ op |-> "new", arg |-> None, from |-> "choosing_powerup",
              count |-> 0, bullets |-> 0 ]

\* apply_fn(player) of one catalog entry
ApplyAny ==
  /\ pc = "upgrades"
  /\ last.count < MaxUpgrades
  /\ \E k \in Catalog :
       /\ player' = ApplyUpgrade(k, player)
       /\ last' = [ op |-> "upgrade", arg |-> k, from |-> state,
                    count |-> last.count + 1,
                    bullets |-> last.bullets + (IF k = UpBulletCount THEN 1 ELSE 0) ]
  /\ UNCHANGED <<pc, now, dt, fullscreen, state, wave, pending_wave, powerup_choices,
                 powerup_card_rects, enemies, player_bullets, enemy_bullets,
                 bouncy_balls, toggles, chain>>

SpecUpgrades == UpgradesInit /\ [][ApplyAny]_vars

\* C16: after any upgrades the bullet count is min(6, 1 + the number of
\* bullet-count upgrades applied): 3 after two of them, never above 6; every
\* bullet-count upgrade sets it to min(6, count + 1) and no other upgrade
\* changes it.
C16_BulletCount ==
  /\ [] ( pc = "upgrades" =>
            /\ player.bullet_count <= 6
            /\ player.bullet_count = IF last.bullets >= 5 THEN 6 ELSE 1 + last.bullets
            /\ last.bullets = 2 => player.bullet_count = 3 )
  /\ [][ (pc = "upgrades" /\ last'.op = "upgrade") =>
           IF last'.arg = 3
           THEN player'.bullet_count
                  = IF player.bullet_count + 1 > 6 THEN 6 ELSE player.bullet_count + 1
           ELSE player'.bullet_count = player.bullet_count ]_vars

\* a bullet-count upgrade applied to a player already at 6 bullets, among
\* other upgrades
C16_Witness ==
  /\ pc = "upgrades" /\ last.op = "upgrade" /\ last.arg = UpBulletCount
  /\ last.bullets = 6 /\ last.count = 7
  /\ player.bullet_count = 6

(***************************************************************************)
(* Unit runs of the player bullets' part of a frame: their update (line    *)
(* 577), the off-screen cleanup (lines 583-585) and their collision pass   *)
(* (lines 596-611), for bullets drawn below a group of up to three         *)
(* enemies, two of which overlap each other.                               *)
(***************************************************************************)
BulletDts == {250, 500}
BulletCentreXs == {110, 140, 240}
BulletCentreYs == {70, 100}
BulletDamages == {HP, 2 * HP}
BulletEnemyCentres == <<125, 155, 325>>
BulletEnemyHealths == {HP, 3 * HP}

BulletEnemy(k, health) ==
  [NewEnemy(1, k - 1, BulletEnemyCentres[k], config.enemy.start_y) EXCEPT !.health = health]

BulletsInit ==
  /\ pc = "player_bullets"
  /\ now = 0
  /\ dt \in BulletDts
  /\ fullscreen = FALSE
  /\ state = "playing"
  /\ wave = 1
  /\ pending_wave = None
  /\ powerup_choices = <<>>
  /\ powerup_card_rects = <<>>
  /\ enemy_bullets = <<>>
  /\ bouncy_balls = <<>>
  /\ toggles = 0
  /\ chain = NoChain
  /\ last = [ op |-> "init", arg |-> None, from |-> "playing" ]
  /\ \E c \in BOOLEAN : player = [NewPlayer(FALSE) EXCEPT !.has_chain_lightning = c]
  /\ \E n \in 1..3 : \E hs \in [1..n -> BulletEnemyHealths] :
       enemies = [ k \in 1..n |-> BulletEnemy(k, hs[k]) ]
  /\ \E n \in 1..MaxBullets :
       \E xs \in [1..n -> BulletCentreXs], ys \in [1..n -> BulletCentreYs],
          ds \in [1..n -> BulletDamages] :
         player_bullets = [ k \in 1..n |->
                              NewBullet(xs[k], ys[k], 0, -config.player.bullet_speed,
                                        ds[k], None) ]

\* lines 577, 583-585 and 596-611 of one frame
BulletsFrame ==
  /\ pc = "player_bullets"
  /\ player_bullets # <<>>
  /\ LET OnScreen(b) == ~PlayerBulletGone(b)
         moved == SelectSeq([ k \in 1..Len(player_bullets) |->
                                BulletUpdate(player_bullets[k], dt) ], OnScreen)
         r == PlayerBulletPass(moved, 1, player,
                [ enemies |-> enemies, kept |-> <<>>, miss |-> 0,
                  miss_lost |-> 0, chains |-> 0 ])
     IN  /\ player_bullets' = r.kept
         /\ enemies' = r.enemies
         /\ last' = [ op |-> "player_bullets", arg |-> None, from |-> state,
                      bullets |-> moved, enemies |-> enemies ]
  /\ UNCHANGED <<pc, now, dt, fullscreen, state, wave, pending_wave, powerup_choices,
                 powerup_card_rects, player, enemy_bullets, bouncy_balls,
                 toggles, chain>>

SpecBullets == BulletsInit /\ [][BulletsFrame]_vars

\* does the rectangle of bullet b overlap that of enemy e
OnEnemy(b, e) ==
  /\ e.x < b.x + 6 /\ b.x < e.x + 50
  /\ e.y < b.y + 18 /\ b.y < e.y + 30

\* the damage of the bullets bs[1..n] that overlap enemy e
RECURSIVE DamageOn(_, _, _)
DamageOn(e, bs, n) ==
  IF n = 0 THEN 0
  ELSE DamageOn(e, bs, n - 1) + (IF OnEnemy(bs[n], e) THEN bs[n].damage ELSE 0)

\* the places in bs of the bullets that overlap an enemy of es still alive
\* at their turn
Spent(es, bs) ==
  { k \in 1..Len(bs) :
      \E j \in 1..Len(es) : OnEnemy(bs[k], es[j]) /\ es[j].health > DamageOn(es[j], bs, k - 1) }

\* C17: in the pass every bullet that overlaps an enemy still alive at its
\* turn leaves the collection, whatever the number of enemies it hit and
\* whether or not one died, and every other bullet stays; without chain
\* lightning every enemy loses the damage of each such bullet that overlaps
\* it, once, and is removed in the pass when its health is at or below 0;
\* with chain lightning it loses at least that.
C17_BulletHits ==
  [][ (pc = "player_bullets" /\ last'.op = "player_bullets") =>
        LET bs == last'.bullets
            es == last'.enemies
            Total(e) == DamageOn(e, bs, Len(bs))
            Survives(e) == e.health > Total(e)
        IN  IF ~player.has_chain_lightning
            THEN /\ player_bullets' = [ i \in 1..(Len(bs) - Cardinality(Spent(es, bs))) |->
                                          bs[CHOOSE k \in (1..Len(bs)) \ Spent(es, bs) :
                                               Cardinality({ m \in (1..Len(bs)) \ Spent(es, bs) :
                                                               m < k }) = i - 1] ]
                 /\ Len(enemies') = Cardinality({ j \in 1..Len(es) : Survives(es[j]) })
                 /\ \A j \in 1..Len(es) :
                      IF Survives(es[j])
                      THEN \E i \in 1..Len(enemies') :
                             enemies'[i] = [es[j] EXCEPT !.health = es[j].health - Total(es[j])]
                      ELSE \A i \in 1..Len(enemies') : enemies'[i].id # es[j].id
            ELSE /\ \A i \in 1..Len(player_bullets') :
                      /\ \E k \in 1..Len(bs) : bs[k] = player_bullets'[i]
                      /\ \A j \in 1..Len(enemies') : ~OnEnemy(player_bullets'[i], enemies'[j])
                 /\ \A i \in 1..Len(enemies') :
                      /\ enemies'[i].health > 0
                      /\ \E j \in 1..Len(es) :
                           /\ es[j].id = enemies'[i].id
                           /\ enemies'[i].health <= es[j].health - Total(es[j]) ]_vars

\* one bullet hit two enemies in a pass: the weak one is gone, the strong
\* one lost the damage once, and the bullet is gone
C17_Witness ==
  /\ pc = "player_bullets" /\ last.op = "player_bullets"
  /\ ~player.has_chain_lightning
  /\ Len(last.bullets) = 1 /\ player_bullets = <<>>
  /\ Len(last.enemies) >= 2
  /\ OnEnemy(last.bullets[1], last.enemies[1]) /\ OnEnemy(last.bullets[1], last.enemies[2])
  /\ last.enemies[1].health = HP /\ last.enemies[2].health = 3 * HP
  /\ last.bullets[1].damage = HP
  /\ enemies # <<>> /\ enemies[1].id = last.enemies[2].id /\ enemies[1].health = 2 * HP

(***************************************************************************)
(* Unit runs of enemy fire: each step is the clock reading (line 502) and  *)
(* the fire pass (lines 590-594) of one frame, for one or two enemies, a   *)
(* frame time drawn and the random gate of every enemy drawn; luck holds   *)
(* the enemies whose random.random() < 0.25 would succeed.                 *)
(***************************************************************************)
FireDts == {400, 600}
FireCentres == <<100, 300>>

FireInit ==
  /\ pc = "fire"
  /\ now = 0
  /\ dt = 0
  /\ fullscreen = FALSE
  /\ state = "playing"
  /\ wave = 1
  /\ pending_wave = None
  /\ powerup_choices = <<>>
  /\ powerup_card_rects = <<>>
  /\ player = NewPlayer(FALSE)
  /\ player_bullets = <<>>
  /\ enemy_bullets = <<>>
  /\ bouncy_balls = <<>>
  /\ toggles = 0
  /\ chain = NoChain
  /\ last = [ op |-> "init", arg |-> None, from |-> "playing", luck |-> {}, frames |-> 0 ]
  /\ \E n \in 1..2 :
       enemies = [ k \in 1..n |-> NewEnemy(1, k - 1, FireCentres[k], config.enemy.start_y) ]

\* lines 501-502 and 590-594 of one frame
FireFrame ==
  /\ pc = "fire"
  /\ last.frames < MaxFireFrames
  /\ \E d \in FireDts, luck \in SUBSET (1..Len(enemies)) :
       LET t == now + d
           fired == FireAll(enemies, enemy_bullets, t,
                            { k \in luck : CanShoot(enemies[k], t) })
       IN  /\ dt' = d
           /\ now' = t
           /\ enemies' = fired.enemies
           /\ enemy_bullets' = fired.enemy_bullets
           /\ last' = [ op |-> "fire", arg |-> None, from |-> state,
                        luck |-> luck, frames |-> last.frames + 1 ]
  /\ UNCHANGED <<pc, fullscreen, state, wave, pending_wave, powerup_choices,
                 powerup_card_rects, player, player_bullets, bouncy_balls,
                 toggles, chain>>

SpecFire == FireInit /\ [][FireFrame]_vars

\* the bullets of bs from position n + 1 on that enemy e owns
ShotsOf(bs, n, e) == { i \in (n + 1)..Len(bs) : bs[i].owner = e.id }

\* C19: in a frame an enemy fires exactly when its cooldown has elapsed
\* (now - last_shot_time >= shoot_cooldown) and its gate succeeds; then one
\* bullet owned by it, starting at its bottom centre and going down, is
\* added and its last_shot_time is now; otherwise none is added and the
\* enemy is unchanged.  The bullets already in flight are kept.
C19_EnemyFire ==
  [][ (pc = "fire" /\ last'.op = "fire") =>
        /\ Len(enemies') = Len(enemies)
        /\ Len(enemy_bullets') >= Len(enemy_bullets)
        /\ \A i \in 1..Len(enemy_bullets) : enemy_bullets'[i] = enemy_bullets[i]
        /\ \A i \in (Len(enemy_bullets) + 1)..Len(enemy_bullets') :
             \E k \in 1..Len(enemies) : enemy_bullets'[i].owner = enemies[k].id
        /\ \A k \in 1..Len(enemies) :
             LET e == enemies[k]
                 elapsed == (now' - e.last_shot_time) * e.shoot_cooldown.den
                              >= e.shoot_cooldown.num
                 shots == ShotsOf(enemy_bullets', Len(enemy_bullets), e)
             IN  IF elapsed /\ k \in last'.luck
                 THEN /\ enemies'[k] = [e EXCEPT !.last_shot_time = now']
                      /\ Cardinality(shots) = 1
                      /\ \A i \in shots :
                           /\ enemy_bullets'[i].x + 3 = e.x + 25
                           /\ enemy_bullets'[i].y + 9 = e.y + 30
                           /\ enemy_bullets'[i].vx = 0 /\ enemy_bullets'[i].vy > 0
                 ELSE /\ enemies'[k] = e
                      /\ shots = {} ]_vars

\* a frame in which the gate of both enemies succeeded, one fired its second
\* shot and the other, which fired one frame before, did not
C19_Witness ==
  /\ pc = "fire" /\ last.op = "fire" /\ last.luck = {1, 2}
  /\ Len(enemies) = 2
  /\ enemies[1].last_shot_time = now
  /\ enemies[2].last_shot_time = now - dt
  /\ Cardinality(ShotsOf(enemy_bullets, 0, enemies[1])) = 2

(***************************************************************************)
(* Unit runs of one playing frame (lines 567-652) from states drawn after  *)
(* the clock reading: enemies of the first layout row, of a row at the     *)
(* player's height and of a row below the screen (create_wave puts the     *)
(* rows spacing apart without a limit, in row-major order), a player       *)
(* bullet, an enemy bullet and a ball on or off their targets.             *)
(***************************************************************************)
FrameDts == {100}
FrameRows == {0, 8, 10}
FrameHealths == {HP, 2 * HP}
FramePlayerBullets == { <<250, 60>>, <<250, -10>> }
FrameEnemyBullets == { <<240, 220>>, <<240, 250>> }
FrameBalls == {"none", "spawn", "enemy"}

FrameEnemy(k, row, health) ==
  [NewEnemy(1, k - 1, 240, config.enemy.start_y + row * config.enemy.spacing)
     EXCEPT !.health = health]

FrameInit ==
  /\ pc = "events"
  /\ now = 3000
  /\ dt \in FrameDts
  /\ fullscreen = FALSE
  /\ state = "playing"
  /\ wave = 1
  /\ pending_wave = None
  /\ powerup_choices = <<>>
  /\ powerup_card_rects = <<>>
  /\ toggles = 0
  /\ chain = NoChain
  /\ last = [ op |-> "tick", arg |-> None, from |-> "playing" ]
  /\ \E n \in 1..MaxFrameEnemies :
       \E rows \in [1..n -> FrameRows], hs \in [1..n -> FrameHealths] :
         /\ \A k \in 1..(n - 1) : rows[k] <= rows[k + 1]
         /\ enemies = [ k \in 1..n |-> FrameEnemy(k, rows[k], hs[k]) ]
  /\ \E thorns \in BOOLEAN, ball \in FrameBalls :
       /\ player = [NewPlayer(FALSE) EXCEPT !.has_thorns = thorns,
                                            !.has_bouncy_ball = ball # "none"]
       /\ bouncy_balls =
            IF ball = "enemy"
            THEN << NewBall(250, 50, (player.bullet_speed * 70) \div 100,
                            -((player.bullet_speed * 60) \div 100),
                            player.bullet_damage \div 2) >>
            ELSE <<>>
  /\ \/ player_bullets = <<>>
     \/ \E c \in FramePlayerBullets :
          player_bullets = << NewBullet(c[1], c[2], 0, -player.bullet_speed,
                                        player.bullet_damage, None) >>
  /\ \/ enemy_bullets = <<>>
     \/ \E c \in FrameEnemyBullets :
          enemy_bullets = << NewBullet(c[1], c[2], 0, config.enemy.bullet_speed,
                                       config.enemy.bullet_damage * HP, enemies[1].id) >>

SpecFrame == FrameInit /\ [][Update]_vars

\* the outcome of the frame of a playing state for the movement key state
\* direction, the ball's side sign and the enemies luck whose gate succeeds,
\* when the off-screen cleanup comes right after the movement (early) or
\* after the enemy-bullet pass (not early)
Resolved(direction, sign, luck, early) ==
  LET p1 == Move(player, direction, dt, fullscreen)
      balls1 == ensure_bouncy_ball_active(p1, bouncy_balls, fullscreen, sign)
      balls2 == IF balls1 = <<>> THEN <<>> ELSE BallUpdate(balls1[1], dt, fullscreen)
      es1 == [ k \in 1..Len(enemies) |-> EnemyUpdate(enemies[k], dt, fullscreen) ]
      InPB(b) == b.y + 18 >= 0
      InEB(b) == b.y <= ScreenH(fullscreen)
      pbm == [ k \in 1..Len(player_bullets) |-> BulletUpdate(player_bullets[k], dt) ]
      ebm == [ k \in 1..Len(enemy_bullets) |-> BulletUpdate(enemy_bullets[k], dt) ]
      pb1 == IF early THEN SelectSeq(pbm, InPB) ELSE pbm
      eb1 == IF early THEN SelectSeq(ebm, InEB) ELSE ebm
      fired == FireAll(es1, eb1, now, { k \in luck : CanShoot(es1[k], now) })
      r1 == PlayerBulletPass(pb1, 1, p1,
              [ enemies |-> fired.enemies, kept |-> <<>>, miss |-> 0,
                miss_lost |-> 0, chains |-> 0 ])
      r2 == BallPass(balls2, 1, p1,
              [ enemies |-> r1.enemies, kept |-> <<>>, chains |-> 0 ])
      r3 == EnemyBulletPass(fired.enemy_bullets, 1, fullscreen,
              [ player |-> p1, enemies |-> r2.enemies, kept |-> <<>>,
                state |-> "playing", struck |-> 0 ])
  IN  [ player |-> r3.player, enemies |-> r3.enemies, state |-> r3.state,
        bouncy_balls |-> r2.kept,
        player_bullets |-> IF early THEN r1.kept ELSE SelectSeq(r1.kept, InPB),
        enemy_bullets |-> IF early THEN r3.kept ELSE SelectSeq(r3.kept, InEB) ]

\* a playing frame has the outcome of: movement, enemy fire, player bullets
\* against enemies, balls against enemies, enemy bullets against the player
\* and the wave-clear check, in this order, with the off-screen cleanup
\* early or not
FrameInOrder(early) ==
  (pc = "events" /\ last'.op = "update" /\ last'.from = "playing") =>
    \E sign \in IF bouncy_balls = <<>> THEN {-1, 1} ELSE {1},
       luck \in SUBSET (1..Len(enemies)) :
      \E r \in { Resolved(last'.arg, sign, luck, early) } :
          /\ player' = r.player
          /\ player_bullets' = r.player_bullets
          /\ bouncy_balls' = r.bouncy_balls
          /\ enemy_bullets' = r.enemy_bullets
          /\ IF r.enemies = <<>> /\ r.state = "playing"
             THEN wave' = wave + 1
             ELSE wave' = wave /\ enemies' = r.enemies /\ state' = r.state

PatrolDts == {100, 500}
PatrolCentres == {100, 240}

PatrolInit ==
  /\ pc = "patrol"
  /\ now = 0
  /\ dt = 0
  /\ fullscreen = FALSE
  /\ state = "playing"
  /\ wave = 1
  /\ pending_wave = None
  /\ powerup_choices = <<>>
  /\ powerup_card_rects = <<>>
  /\ player = NewPlayer(FALSE)
  /\ player_bullets = <<>>
  /\ enemy_bullets = <<>>
  /\ bouncy_balls = <<>>
  /\ toggles = 0
  /\ chain = NoChain
  /\ last = [ op |-> "init", arg |-> None, from |-> "playing", flipped |-> {}, frames |-> 0 ]
  /\ \E cx \in PatrolCentres :
       enemies = << NewEnemy(1, 0, cx, config.enemy.start_y) >>

\* lines 501 and 580 of one frame
PatrolFrame ==
  /\ pc = "patrol"
  /\ last.frames < MaxPatrolFrames
  /\ \E d \in PatrolDts :
       /\ dt' = d
       /\ enemies' = [ k \in 1..Len(enemies) |-> EnemyUpdate(enemies[k], d, fullscreen) ]
       /\ last' = [ op |-> "patrol", arg |-> None, from |-> state,
                    flipped |-> { k \in 1..Len(enemies) :
                                    EnemyUpdate(enemies[k], d, fullscreen).direction
                                      # enemies[k].direction },
                    frames |-> last.frames + 1 ]
  /\ UNCHANGED <<pc, now, fullscreen, state, wave, pending_wave, powerup_choices,
                 powerup_card_rects, player, player_bullets, enemy_bullets,
                 bouncy_balls, toggles, chain>>

SpecPatrol == PatrolInit /\ [][PatrolFrame]_vars

\* C21: an enemy whose direction was reversed in one update is not reversed
\* in the next update, whatever the frame times.
C21_NoJitter ==
  [][ (pc = "patrol" /\ last'.op = "patrol") =>
        \A k \in last.flipped : enemies'[k].direction = enemies[k].direction ]_vars

SpawnedBall(b, p, d) ==
  /\ b.lifetime = 6000 - d
  /\ b.remaining_collisions \in {9, 10}
  /\ b.damage * 2 = p.bullet_damage
  /\ b.vx \in { (p.bullet_speed * 70) \div 100, -((p.bullet_speed * 70) \div 100) }
  /\ b.vy \in { (p.bullet_speed * 60) \div 100, -((p.bullet_speed * 60) \div 100) }

\* C23: there is at most one ball, and only with the ability.  An event
\* leaves the ball alone, firing too, but for a restart, which takes it out,
\* and a selection made with no ball that leaves the player with the
\* ability, which spawns one.  A playing frame that starts with the ability
\* and no ball spawns one (full lifetime and collisions, half the player's
\* bullet damage) and then updates it; any other frame spawns none: its
\* ball, if any, is the one it started with, older by the frame time.
C23_OneBall ==
  /\ [] ( /\ Len(bouncy_balls) <= 1
          /\ bouncy_balls # <<>> => player.has_bouncy_ball )
  /\ [][ /\ last'.op \in {"key", "click", "tick"} =>
              \/ bouncy_balls' = bouncy_balls
              \/ RestartKey /\ state = "game_over" /\ bouncy_balls' = <<>>
              \/ /\ ValidSelection /\ bouncy_balls = <<>> /\ player'.has_bouncy_ball
                 /\ Len(bouncy_balls') = 1
                 /\ SpawnedBall(bouncy_balls'[1], player', 0)
                 /\ bouncy_balls'[1].remaining_collisions = 10
         /\ PlayedFrame =>
              IF player.has_bouncy_ball /\ bouncy_balls = <<>>
              THEN /\ dt < 6000 => Len(bouncy_balls') = 1
                   /\ \A i \in 1..Len(bouncy_balls') :
                        SpawnedBall(bouncy_balls'[i], player, dt)
              ELSE \A i \in 1..Len(bouncy_balls') :
                     /\ bouncy_balls # <<>>
                     /\ bouncy_balls'[i].lifetime = bouncy_balls[1].lifetime - dt
                     /\ bouncy_balls'[i].remaining_collisions
                          \in { bouncy_balls[1].remaining_collisions,
                                bouncy_balls[1].remaining_collisions - 1 }
                     /\ bouncy_balls'[i].damage = bouncy_balls[1].damage ]_vars

\* the end of a frame that spawned a ball in place of the one that expired:
\* the ball is new although a bullet of this wave's enemy has been in flight
\* for a frame, and the ability came with the wave
C23_Witness ==
  /\ last.op = "update" /\ last.from = "playing"
  /\ player.has_bouncy_ball /\ wave = 3
  /\ Len(bouncy_balls) = 1
  /\ bouncy_balls[1].lifetime = 6000 - dt
  /\ bouncy_balls[1].remaining_collisions = 10
  /\ \E i \in 1..Len(enemy_bullets) :
       enemy_bullets[i].owner[1] = 3 /\ enemy_bullets[i].y > 2 * EnemyH + BulletH

\* C24: a playing frame that takes the player's last health ends in
\* game_over, also when it leaves no enemy: the wave number, the offers and
\* the pending wave stay as they were and no enemy is generated.
C24_DefeatWins ==
  [][ (PlayedFrame /\ player'.health = 0) =>
        /\ state' = "game_over"
        /\ wave' = wave
        /\ powerup_choices' = <<>> /\ powerup_choices = <<>>
        /\ pending_wave' = pending_wave
        /\ \A i \in 1..Len(enemies') :
             \E j \in 1..Len(enemies) : enemies'[i].id = enemies[j].id ]_vars

\* the end of a frame that took the player's last health and the last enemy
C24_Witness ==
  /\ last.op = "update" /\ last.from = "playing" /\ last.struck >= 1
  /\ player.health = 0 /\ enemies = <<>> /\ state = "game_over"

\* C25: in the state choosing there is no enemy, three upgrades are
\* offered and the pending wave is the wave number, which is odd and at
\* least 3; in the state playing there is an enemy, no offer and no pending
\* wave.  The wave number never goes down but for a restart, which sets it
\* to 1.
C25_WaveStates ==
  /\ [] ( /\ state = "choosing" =>
               /\ enemies = <<>>
               /\ Len(powerup_choices) = 3
               /\ pending_wave = wave
               /\ wave >= 3 /\ wave % 2 = 1
          /\ state = "playing" =>
               /\ enemies # <<>>
               /\ powerup_choices = <<>>
               /\ pending_wave = None )
  /\ [][ \/ wave' >= wave
         \/ RestartKey /\ state = "game_over" /\ wave' = 1 ]_vars

\* the end of a frame of wave 3, played after the selection of the second
\* bullet: an enemy is there, no offer is up, no wave is pending
C25_Witness ==
  /\ last.op = "update" /\ last.from = "playing"
  /\ state = "playing" /\ wave = 3 /\ player.bullet_count = 2
  /\ enemies # <<>> /\ powerup_choices = <<>> /\ pending_wave = None

=============================================================================
